---------------------------- MODULE Spec2Model ----------------------------
(***************************************************************************)
(* A model of the flow core of graph-primal-dual: the primal flow          *)
(* iteration (SparseMCFModel.build and the solver layer that               *)
(* NeighborhoodModel.build calls), the cycle correction, the flow cost and *)
(* the dual cost of NeighborhoodModel.build, and the normalisation that    *)
(* turns decoded node scores into flow proportions.  Around the core it    *)
(* models the capacity step of the build, the callers of Model.inference   *)
(* (the validation loop and test), the batches of one training epoch, and  *)
(* the dropout keep probability fed to each forward pass.  It also models  *)
(* the feeding of the neighbourhood placeholders by train and test,        *)
(* load_graph, add_features, the adjacency lists of graph_utils and the    *)
(* early stopping of train, each as a specification of its own.            *)
(*                                                                         *)
(* Numbers.  The program computes in float32.  The model computes with    *)
(* exact rationals: a tensor is a function from its indices to integer    *)
(* numerators, with one positive denominator for the whole tensor.  An    *)
(* index is a pair <<row, column>>.  A dense V x V tensor has every pair   *)
(* as an index, a sparse tensor has the indices it stores.                 *)
(***************************************************************************)
EXTENDS Integers, FiniteSets, Sequences, TLC

VARIABLES
    arch,                  \* which model class is built
    is_sparse,             \* params['sparse']
    num_nodes,             \* V
    adj,                   \* the adjacency matrix, as its set of edges
    demands,               \* node -> demand
    flow_weight_pred,      \* index -> numerator over WeightDen
    flow_iters,            \* params['flow_iters']
    should_correct_flows,  \* kwargs['should_correct_flows']
    cost_fn,               \* the configured cost function
    dual_vars,             \* node -> potential (output of the dual decoder)
    flow,                  \* index -> numerator over flow_den
    flow_den,              \* the denominator of flow
    pre_flow,              \* the flow the solver returned (before correction)
    pre_den,               \* its denominator
    iters,                 \* iterations of the while_loop body executed
    node_weights,          \* node -> score (output of the node decoder)
    use_sparsemax,         \* params['use_sparsemax']
    pairing,               \* how the two builds score an edge from the node scores
    norm_weights,          \* index -> numerator of the normalised weight
    norm_den,              \* row -> denominator of the row's normalised weights
    use_capacities,        \* params['use_capacities']
    capacities,            \* edge -> numerator of its capacity over WeightDen
    output_ops,            \* Model.output_ops: the names of the registered tensors
    outputs,               \* what the last model.inference returned
    avg_loss,              \* the validation loop's avg_loss
    test_read,             \* what test() took for flow_cost, flows, proportions
    params_batch_size,     \* params['batch_size']
    num_train_points,      \* self.dataset.num_train_points
    num_valid_points,      \* the number of validation instances
    batch_size,            \* train()'s batch_size
    num_train_batches,     \* train()'s num_train_batches
    train_step,            \* training batches run in this epoch
    valid_step,            \* validation batches run in this epoch
    batch_len,             \* graph instances in the batch of the last step
    decoder_scores,        \* node -> the score the learned parameters give it
    params_keep_den,       \* params['dropout_keep_prob'] is 1 / params_keep_den
    evals,                 \* the forward evaluations made so far, in order
    driver,                \* the file whose NeighborhoodMCF is run
    entry,                 \* the method called: train or test
    params_keys,           \* the options present in params
    params_num_neighborhoods, \* params['num_neighborhoods'], when present
    params_epochs,         \* params['epochs'], when present
    neighborhood_set,      \* position -> hop of the structure held there
    neighborhoods_ph,      \* the number of neighborhood placeholders created
    feed_dict,             \* placeholder -> hop of the structure fed to it
    runs,                  \* the forward evaluations executed, with their feeds
    epoch,                 \* train()'s epoch
    stored_graph,          \* the graph in graphs/<graph_name>/graph.graphml
    loaded_graph,          \* what load_graph returned
    heap,                  \* graph object -> its nodes and edges with attributes
    node_features,         \* add_features' node_features
    edge_features,         \* add_features' edge_features
    given_graph,           \* the value of the caller's graph when add_features was called
    returned,              \* the graph object add_features returned
    adj_matrix,            \* a square matrix, as the set of its non-zero entries
    matrix_size,           \* its number of rows
    inverted,              \* adj_matrix_to_list's inverted
    adj_lst,               \* what adj_matrix_to_list returned
    max_degree,            \* pad_adj_list's max_degree
    max_num_nodes,         \* pad_adj_list's max_num_nodes
    mask_number,           \* pad_adj_list's mask_number
    padded,                \* what pad_adj_list returned
    params_patience,       \* params['patience']
    params_early_stop_threshold, \* params['early_stop_threshold']
    valid_losses,          \* epoch -> its avg_valid_loss
    convergence_count,     \* train()'s convergence_count
    prev_loss,             \* train()'s prev_loss
    saved,                 \* the epochs in which model.save ran, in order
    pc                     \* position in build's flow computation

normVars == <<node_weights, use_sparsemax, pairing, norm_weights, norm_den>>

capVars == <<use_capacities, capacities>>

runVars == <<output_ops, outputs, avg_loss, test_read>>

batchVars == <<params_batch_size, num_train_points, num_valid_points, batch_size,
               num_train_batches, train_step, valid_step, batch_len>>

evalVars == <<decoder_scores, params_keep_den, evals>>

feedVars == <<driver, entry, params_keys, params_num_neighborhoods, params_epochs,
              neighborhood_set, neighborhoods_ph, feed_dict, runs, epoch>>

loadVars == <<stored_graph, loaded_graph>>

featVars == <<heap, node_features, edge_features, given_graph, returned>>

listVars == <<adj_matrix, matrix_size, inverted, adj_lst, max_degree, max_num_nodes,
              mask_number, padded>>

stopVars == <<params_patience, params_early_stop_threshold, valid_losses,
              convergence_count, prev_loss, saved>>

laterVars == <<feedVars, loadVars, featVars, listVars, stopVars>>

harnessVars == <<runVars, batchVars, evalVars, laterVars>>

(* The variables of build and of the callers of the built model. *)
builtVars == <<arch, is_sparse, num_nodes, adj, demands, flow_weight_pred, flow_iters,
               should_correct_flows, cost_fn, dual_vars, flow, flow_den, pre_flow,
               pre_den, iters, normVars, capVars, runVars, batchVars, evalVars>>

vars == <<arch, is_sparse, num_nodes, adj, demands, flow_weight_pred, flow_iters,
          should_correct_flows, cost_fn, dual_vars, flow, flow_den, pre_flow,
          pre_den, iters, normVars, capVars, harnessVars, pc>>

----------------------------------------------------------------------------
(* Bounds of the model. *)

MaxDemand == 1
MaxFlowIters == 5
MaxDual == 1
MaxCostSlope == 1
MaxScore == 1
MaxBatchSize == 3
MaxPoints == 6
MaxEvals == 2
MaxHops == 2
MaxEpochs == 2
MaxStoredNodes == 3
MaxFeature == 1
MaxMatrixSize == 3
MaxLoss == 1

----------------------------------------------------------------------------
(* Arithmetic helpers. *)

RECURSIVE SumOver(_, _)
SumOver(S, f) ==
    IF S = {} THEN 0
    ELSE LET x == CHOOSE y \in S : TRUE
         IN f[x] + SumOver(S \ {x}, f)

Relu(x) == IF x > 0 THEN x ELSE 0

Abs(x) == IF x < 0 THEN -x ELSE x

Min(a, b) == IF a <= b THEN a ELSE b

Nodes == 0 .. (num_nodes - 1)

AllPairs == Nodes \X Nodes

(* The value of a tensor at an index it may not store: 0 there. *)
At(t, i) == IF i \in DOMAIN t THEN t[i] ELSE 0

----------------------------------------------------------------------------
(* Inputs. *)

Cycle3 == [n |-> 3, edges |-> {<<0, 1>>, <<1, 2>>, <<2, 0>>}]

Path3 == [n |-> 3, edges |-> {<<0, 1>>, <<1, 0>>, <<1, 2>>, <<2, 1>>}]

Mixed3 == [n |-> 3, edges |-> {<<0, 1>>, <<1, 0>>, <<1, 2>>, <<2, 0>>}]

Cycle4 == [n |-> 4, edges |-> {<<0, 1>>, <<1, 2>>, <<2, 3>>, <<3, 0>>}]

Graphs == {Cycle3, Path3, Mixed3, Cycle4}

(* Flow proportions are multiples of 1/WeightDen. *)
WeightNumerators == {0, 1, 2}

WeightDen == CHOOSE m \in WeightNumerators : \A k \in WeightNumerators : k <= m

OutEdges(E, v) == {e \in E : e[1] = v}

(* The row-stochastic matrices on the sparsity pattern E: every row with an *)
(* out-edge sums to 1 (WeightDen / WeightDen).                              *)
RowStochastic(g) ==
    {w \in [g.edges -> WeightNumerators] :
        \A v \in 0 .. (g.n - 1) :
            OutEdges(g.edges, v) # {} => SumOver(OutEdges(g.edges, v), w) = WeightDen}

(* The dense form of a tensor: every pair is an index, 0 where nothing is stored. *)
ToDense(t, n) == [i \in (0 .. (n - 1)) \X (0 .. (n - 1)) |-> At(t, i)]

DemandVectors(n) == [0 .. (n - 1) -> (-MaxDemand) .. MaxDemand]

Quadratic == [a |-> 1, b |-> 0]

ZeroVector(n) == [v \in 0 .. (n - 1) |-> 0]

----------------------------------------------------------------------------
(* The primal flow iteration. *)

(* Mutant: the reduction runs along the other axis (the sum of row v). *)
InflowAlongRows(f, v) == SumOver({i \in DOMAIN f : i[1] = v}, f)

(* tf.sparse_reduce_sum(flow, axis=0) / tf.reduce_sum over the rows: the sum *)
(* of column v, the flow entering v.                                         *)
Inflow(f, v) == SumOver({i \in DOMAIN f : i[2] = v}, f)

(* Mutant: the relu is left out. *)
AdjustedInflowNoRelu(f, den, v) == Inflow(f, v) - demands[v] * den

(* relu(inflow - demands), as a numerator over den. *)
AdjustedInflow(f, den, v) == Relu(Inflow(f, v) - demands[v] * den)

(* Mutant: the excess of the edge's target node is broadcast, not that of    *)
(* its source node.                                                          *)
BodyAlongColumns(f, den) ==
    [i \in DOMAIN flow_weight_pred |-> flow_weight_pred[i] * AdjustedInflow(f, den, i[2])]

(* Mutant: every edge of a node carries the node's whole excess. *)
BodyWithoutWeights(f, den) ==
    [i \in DOMAIN flow_weight_pred |-> WeightDen * AdjustedInflow(f, den, i[1])]

(* body: new_flow = flow_weight_pred * adjusted_inflow, a numerator over     *)
(* den * WeightDen.  The V x 1 column broadcasts along each row.             *)
Body(f, den) ==
    [i \in DOMAIN flow_weight_pred |-> flow_weight_pred[i] * AdjustedInflow(f, den, i[1])]

(* The dense solver layer: the inflow of v is the sum of column v of the     *)
(* V x V flow matrix, over every row.                                        *)
DenseInflow(f, v) == SumOver(Nodes, [u \in Nodes |-> At(f, <<u, v>>)])

(* One round of the dense solver layer: weights * relu(inflow - demands) on  *)
(* every pair of the V x V matrix, a numerator over den * WeightDen.         *)
DenseBody(f, den) ==
    [i \in AllPairs |->
        At(flow_weight_pred, i) * Relu(DenseInflow(f, i[1]) - demands[i[1]] * den)]

(* Mutant: the loop goes on only while an iteration still changes the flow. *)
CondResidual(f) ==
    \E i \in DOMAIN f : Body(f, flow_den)[i] # f[i] * WeightDen

(* cond=lambda x: True *)
Cond(f) == TRUE

(* Mutant: the loop starts from a flow that is 0 on every index. *)
InitialFlowZero(w) == [i \in DOMAIN w |-> 0]

(* The flow the loop starts from in SparseMCFModel.build: flow = flow_weight_pred. *)
InitialFlow(w) == w

InitialDen == WeightDen

(* The flow the solver layer of NeighborhoodModel starts from: no flow, so   *)
(* that the first iteration's excess relu(0 - demand) is what the demands    *)
(* inject.                                                                   *)
LayerInitialFlow(w) == [i \in DOMAIN w |-> 0]

LayerInitialDen == 1

StartFlow(a, w) == IF a = "SparseMCFModel" THEN InitialFlow(w) ELSE LayerInitialFlow(w)

StartDen(a) == IF a = "SparseMCFModel" THEN InitialDen ELSE LayerInitialDen

----------------------------------------------------------------------------
(* Sparse tensor operations. *)

(* tf.sparse.transpose(t, perm=[1, 0]) *)
SparseTranspose(t) ==
    [i \in {<<j[2], j[1]>> : j \in DOMAIN t} |-> t[<<i[2], i[1]>>]]

(* tf.sparse.add(a, b): the result stores every index either operand stores. *)
SparseAdd(a, b) == [i \in (DOMAIN a) \cup (DOMAIN b) |-> At(a, i) + At(b, i)]

(* sparse_scalar_mul(t, c) *)
SparseScalarMul(t, c) == [i \in DOMAIN t |-> c * t[i]]

(* sparse_subtract(a, b) *)
SparseSubtract(a, b) == SparseAdd(a, SparseScalarMul(b, -1))

(* Mutant: the absolute value is left out. *)
SparseAbsDropped(t) == t

(* tf.abs of a sparse tensor: the stored values' absolute values. *)
SparseAbs(t) == [i \in DOMAIN t |-> Abs(t[i])]

----------------------------------------------------------------------------
(* The cycle correction. *)

(* min_flow of the sparse path: flow_add - |flow - flow^T|, which is          *)
(* 2 * min(flow, flow^T).                                                     *)
SparseMinFlow(f) ==
    LET flow_transpose == SparseTranspose(f)
        flow_add == SparseAdd(f, flow_transpose)
        flow_sub_abs == SparseAbs(SparseSubtract(f, flow_transpose))
    IN SparseSubtract(flow_add, flow_sub_abs)

(* flow = tf.sparse.add(flow, sparse_scalar_mul(min_flow, -0.5)).  The factor *)
(* 0.5 doubles the denominator: the result is a numerator over 2 * den.       *)
SparseCorrect(f) ==
    SparseAdd(SparseScalarMul(f, 2), SparseScalarMul(SparseMinFlow(f), -1))

(* adj as a 0/1 matrix entry. *)
AdjAt(i) == IF i \in adj THEN 1 ELSE 0

(* Mutant: the reverse flow is subtracted whole, not the smaller of the two. *)
DenseCorrectWithoutMinimum(f) ==
    [i \in DOMAIN f |-> f[i] - AdjAt(i) * f[<<i[2], i[1]>>]]

(* Mutant: the reciprocal flow is added instead of subtracted. *)
DenseCorrectAdds(f) ==
    [i \in DOMAIN f |-> f[i] + AdjAt(i) * Min(f[i], f[<<i[2], i[1]>>])]

(* flow - adj * tf.math.minimum(flow, tf.transpose(flow)); same denominator.  *)
DenseCorrect(f) ==
    [i \in DOMAIN f |-> f[i] - AdjAt(i) * Min(f[i], f[<<i[2], i[1]>>])]

CorrectedFlow(f) == IF is_sparse THEN SparseCorrect(f) ELSE DenseCorrect(f)

CorrectedDen(den) == IF is_sparse THEN 2 * den ELSE den

----------------------------------------------------------------------------
(* Capacities. *)

(* mask_sp_tensor(sp_a, sp_b) on a flow with denominator den and capacities   *)
(* with denominator WeightDen: the elementwise minimum of the two on the      *)
(* indices of sp_b, a numerator over den * WeightDen.                         *)
MaskSpTensor(sp_a, den, sp_b) ==
    [i \in DOMAIN sp_b |-> Min(At(sp_a, i) * WeightDen, sp_b[i] * den)]

(* The sparse path: relu on the stored values, then mask_sp_tensor. *)
SparseCapacityFlow(f, den) ==
    MaskSpTensor([i \in DOMAIN f |-> Relu(f[i])], den, capacities)

(* The capacities of a graph's edges: multiples of 1 / WeightDen up to 1. *)
Capacities(g) == [g.edges -> 1 .. WeightDen]

----------------------------------------------------------------------------
(* Costs. *)

(* cost_fn.apply(x) for x = n / den, as a numerator over den * den:           *)
(* a * x^2 + b * x.                                                           *)
Apply(c, n, den) == c.a * n * n + c.b * n * den

(* cost_fn.inv_derivative(y), the inverse of x |-> 2 * a * x + b, as a        *)
(* numerator over 2 * a.                                                      *)
InvDerivative(c, y) == y - c.b

(* flow_cost = reduce_sum(cost_fn.apply(flow)), a numerator over den * den.   *)
FlowCost(c, f, den) ==
    SumOver(DOMAIN f, [i \in DOMAIN f |-> Apply(c, f[i], den)])

(* Mutant: the transposed potentials are not negated. *)
SparseDualDiffNotNegated(p) == [i \in adj |-> p[i[1]] + p[i[2]]]

(* dual_diff: p[u] - p[v] on every edge; the dense form is adj * (p - p^T).   *)
SparseDualDiff(p) ==
    LET dual_masked == [i \in adj |-> p[i[1]]]
        dual_transpose == [i \in adj |-> -p[i[2]]]
    IN SparseAdd(dual_masked, dual_transpose)

DenseDualDiff(p) == [i \in AllPairs |-> AdjAt(i) * (p[i[1]] - p[i[2]])]

DualDiff(p) == IF is_sparse THEN SparseDualDiff(p) ELSE DenseDualDiff(p)

(* neighborhood_model.py: dual_diff = dual_vars - transpose(dual_vars), in    *)
(* both modes a V x V tensor with no mask.                                    *)
LegacyDualDiff(p) == [i \in AllPairs |-> p[i[1]] - p[i[2]]]

(* Mutant: the relu is left out. *)
DualFlowsNoRelu(c, diff) ==
    [i \in DOMAIN diff |-> AdjAt(i) * InvDerivative(c, diff[i])]

(* dual_flows = adj * relu(cost_fn.inv_derivative(dual_diff)), a numerator    *)
(* over 2 * a.                                                                *)
DualFlows(c, diff) ==
    [i \in DOMAIN diff |-> AdjAt(i) * Relu(InvDerivative(c, diff[i]))]

(* Mutant: dual_diff * dual_flows is not subtracted from the edge costs. *)
DualCostDropsCrossTerm(c, p) ==
    LET diff == DualDiff(p)
        dual_flows == DualFlows(c, diff)
        dden == 2 * c.a
        dual_flow_cost == [i \in DOMAIN diff |-> Apply(c, dual_flows[i], dden)]
        dual_demand == SumOver(Nodes, [v \in Nodes |-> p[v] * demands[v]])
    IN SumOver(DOMAIN diff, dual_flow_cost) - dual_demand * dden * dden

(* dual_cost = reduce_sum(cost_fn.apply(dual_flows) - dual_diff * dual_flows) *)
(*             - reduce_sum(dual_vars * demands),                             *)
(* a numerator over (2 * a) * (2 * a).                                        *)
DualCostFrom(c, p, diff) ==
    LET dual_flows == DualFlows(c, diff)
        dden == 2 * c.a
        dual_flow_cost == [i \in DOMAIN diff |->
            Apply(c, dual_flows[i], dden) - diff[i] * dual_flows[i] * dden]
        dual_demand == SumOver(Nodes, [v \in Nodes |-> p[v] * demands[v]])
    IN SumOver(DOMAIN diff, dual_flow_cost) - dual_demand * dden * dden

DualCost(c, p) == DualCostFrom(c, p, DualDiff(p))

----------------------------------------------------------------------------
(* The normalisation of the decoded node scores into flow proportions.  A   *)
(* normalised row v is a function from the row's indices to numerators over  *)
(* the row's denominator norm_den[v].                                        *)

RECURSIVE Pow2(_)
Pow2(k) == IF k = 0 THEN 1 ELSE 2 * Pow2(k - 1)

MaxOf(S) == CHOOSE m \in S : \A x \in S : x <= m

(* The largest absolute value of an edge's score. *)
ScoreRange == MaxScore * MaxScore

(* exp in float32: exp(-s) for s >= 0 is a numerator over 2^ExpBits, and is  *)
(* 0 (underflow) when s is too large.  ExpBits is wide enough for the scores *)
(* of two edges of one row never to underflow.                               *)
ExpBits == 2 * ScoreRange

Exp(s) == IF s > ExpBits THEN 0 ELSE Pow2(ExpBits - s)

(* BIG_NUMBER: so large that exp(-BIG_NUMBER + x - y) underflows for all edge *)
(* scores x and y.                                                            *)
BIG_NUMBER == 2 * ExpBits + 1

(* The score of the pair (u, v) before masking.  models/neighborhood_model.py *)
(* takes the score of the target node (adj * transpose(node_weights)),        *)
(* neighborhood_model.py the product of the two nodes' scores.                *)
PairScore(u, v) ==
    IF pairing = "column" THEN node_weights[v] ELSE node_weights[u] * node_weights[v]

(* Sparse mode: adj * pred_weights, stored on the edges. *)
SparsePredWeights == [i \in adj |-> PairScore(i[1], i[2])]

(* Dense mode: weights = (-BIG_NUMBER * (1.0 - adj)) + pred_weights, where    *)
(* models/neighborhood_model.py masks pred_weights with adj and               *)
(* neighborhood_model.py does not.                                            *)
DensePredWeights ==
    [i \in AllPairs |->
        (-BIG_NUMBER) * (1 - AdjAt(i))
        + (IF pairing = "column" THEN AdjAt(i) * PairScore(i[1], i[2])
           ELSE PairScore(i[1], i[2]))]

(* The indices of row v of a tensor. *)
Row(x, v) == {i \in DOMAIN x : i[1] = v}

(* tf.nn.softmax(x, axis=-1) and tf.sparse.softmax(x): in every row,          *)
(* exp(x - max of the row) over the row's sum of these.                       *)
SoftmaxNum(x) ==
    [i \in DOMAIN x |-> Exp(MaxOf({x[j] : j \in Row(x, i[1])}) - x[i])]

(* Mutant: the sum runs over the whole tensor instead of the row. *)
SoftmaxDenOverAll(x) ==
    [v \in Nodes |-> IF DOMAIN x = {} THEN 1 ELSE SumOver(DOMAIN x, SoftmaxNum(x))]

SoftmaxDen(x) ==
    [v \in Nodes |-> IF Row(x, v) = {} THEN 1 ELSE SumOver(Row(x, v), SoftmaxNum(x))]

(* Sparsemax: the projection of the allowed entries of each row onto the      *)
(* probability simplex, p = max(x - tau, 0) with tau = (sum of the support    *)
(* - 1) / (size of the support); an entry is in the support when              *)
(* 1 + k * x > (sum of the k entries that are >= x).                          *)
SparsemaxSupport(x, allowed, v) ==
    LET A == Row(x, v) \cap allowed
    IN {i \in A : LET ge == {j \in A : x[j] >= x[i]}
                  IN 1 + Cardinality(ge) * x[i] > SumOver(ge, x)}

SparsemaxNum(x, allowed) ==
    [i \in DOMAIN x |->
        LET S == SparsemaxSupport(x, allowed, i[1])
        IN IF i \in S THEN Cardinality(S) * x[i] - SumOver(S, x) + 1 ELSE 0]

SparsemaxDen(x, allowed) ==
    [v \in Nodes |->
        LET S == SparsemaxSupport(x, allowed, v)
        IN IF S = {} THEN 1 ELSE Cardinality(S)]

(* The scores that are normalised, by mode. *)
PredWeights == IF is_sparse THEN SparsePredWeights ELSE DensePredWeights

(* flow_weight_pred, by params['use_sparsemax']. *)
NormalisedNum ==
    IF use_sparsemax THEN SparsemaxNum(PredWeights, adj) ELSE SoftmaxNum(PredWeights)

NormalisedDen ==
    IF use_sparsemax THEN SparsemaxDen(PredWeights, adj) ELSE SoftmaxDen(PredWeights)

(* The graphs the normalisation is checked on: Sink3 has a node with no      *)
(* outgoing edge.                                                            *)
Sink3 == [n |-> 3, edges |-> {<<0, 1>>, <<0, 2>>, <<1, 2>>}]

NormGraphs == {Cycle3, Mixed3, Sink3}

ScoreVectors(n) == [0 .. (n - 1) -> (-MaxScore) .. MaxScore]

(* In the specifications of the flow computation the flow proportions are    *)
(* given: the normalisation plays no part.                                   *)
NormalisationDone ==
    /\ node_weights = <<>>
    /\ use_sparsemax = FALSE
    /\ pairing = "column"
    /\ norm_weights = <<>>
    /\ norm_den = <<>>

----------------------------------------------------------------------------
(* The registered outputs and model.inference. *)

(* self.output_ops += [...] of models/neighborhood_model.py, on the empty     *)
(* list of Model.__init__.                                                    *)
ModelsOutputOps ==
    <<"flow_cost", "flow", "flow_weight_pred", "dual_cost", "dual_flows",
      "attn_coefs", "node_weights", "capacities">>

(* self.output_ops += [...] of neighborhood_model.py. *)
LegacyOutputOps ==
    <<"flow_cost", "flow", "flow_weight_pred", "weights", "node_encoding">>

(* self.loss_op = tf.reduce_mean(flow_cost - dual_cost), for one graph        *)
(* instance: a numerator over a denominator.                                  *)
LossOp ==
    LET dden == 2 * cost_fn.a
    IN [num |-> FlowCost(cost_fn, flow, flow_den) * dden * dden
                - DualCost(cost_fn, dual_vars) * flow_den * flow_den,
        den |-> flow_den * flow_den * dden * dden]

(* The value session.run gives for a registered tensor; the tensors the      *)
(* model does not compute are left empty.                                     *)
OpValue(name) ==
    CASE name = "flow_cost" ->
            [num |-> FlowCost(cost_fn, flow, flow_den), den |-> flow_den * flow_den]
      [] name = "flow" -> [num |-> flow, den |-> flow_den]
      [] name = "flow_weight_pred" -> [num |-> flow_weight_pred, den |-> WeightDen]
      [] name = "dual_cost" ->
            [num |-> DualCost(cost_fn, dual_vars),
             den |-> (2 * cost_fn.a) * (2 * cost_fn.a)]
      [] name = "dual_flows" ->
            [num |-> DualFlows(cost_fn, DualDiff(dual_vars)), den |-> 2 * cost_fn.a]
      [] OTHER -> [num |-> <<>>, den |-> 1]

(* Model.inference: self._sess.run(self.output_ops), the values of the        *)
(* registered tensors in the order of their registration.                     *)
Inference ==
    [k \in DOMAIN output_ops |-> [op |-> output_ops[k], val |-> OpValue(output_ops[k])]]

(* seq[k] of Python: positions count from 0. *)
Item(seq, k) == seq[k + 1]

----------------------------------------------------------------------------
(* The batches of train(). *)

(* Mutant: the configured batch size is used in both modes. *)
BatchSizeConfigured == params_batch_size

(* batch_size = 1 if self.params['sparse'] else self.params['batch_size'] *)
BatchSize == IF is_sparse THEN 1 ELSE params_batch_size

(* int(math.ceil(n / b)): the true quotient, rounded up. *)
CeilDiv(n, b) == IF n % b = 0 THEN n \div b ELSE (n \div b) + 1

(* self.dataset.get_train_batch(batch_size): a batch of batch_size instances. *)
TrainBatchLen(b) == b

(* self.dataset.create_shuffled_batches(series, batch_size): the series cut   *)
(* into batches of batch_size instances, the last one with what is left.      *)
NumValidBatches(n, b) == CeilDiv(n, b)

ValidBatchLen(n, b, k) == Min(b, n - k * b)

----------------------------------------------------------------------------
(* Forward evaluations and dropout. *)

(* Mutant: every forward pass is fed the configured keep probability. *)
FedKeepDenOfParams(series) == params_keep_den

(* dropout_keep_ph in feed_dict: self.params['dropout_keep_prob'] in a        *)
(* training step, 1.0 in a validation or test batch.  The keep probability    *)
(* is 1 / (the value).                                                        *)
FedKeepDen(series) == IF series = "train" THEN params_keep_den ELSE 1

(* The masks dropout can draw: at keep probability 1 every unit is kept,      *)
(* below 1 every unit is kept or zeroed at random.  One unit per node.        *)
DropoutMasks(keep_den) ==
    IF keep_den = 1 THEN {[v \in Nodes |-> 1]} ELSE [Nodes -> {0, 1}]

(* The decoder's score of a node whose encoding was kept or zeroed. *)
DecodedScores(mask) == [v \in Nodes |-> mask[v] * decoder_scores[v]]

(* The flow after the first solver round from the empty flow:                 *)
(* weight * relu(0 - demand) on every index, a numerator over the             *)
(* denominator of the index's row.                                            *)
FirstRoundFlow ==
    [i \in DOMAIN norm_weights |-> norm_weights[i] * Relu(0 - demands[i[1]])]

----------------------------------------------------------------------------
(* The neighborhood placeholders of NeighborhoodMCF and what is fed to them. *)

(* The options train() and test() read. *)
RequiredOptions ==
    {"num_neighborhoods", "sparse", "flow_iters", "epochs", "dropout_keep_prob",
     "early_stop_threshold", "patience", "plot_flows"}

(* int(math.log(n)) for the sizes of the graphs of the model. *)
IntLog(n) == IF n < 3 THEN 0 ELSE IF n < 8 THEN 1 ELSE 2

(* _num_neighborhoods(graph) of sparse_neighborhood.py. *)
NumNeighborhoodsOf(g) ==
    IF "num_neighborhoods" \in params_keys
    THEN params_num_neighborhoods
    ELSE MaxOf({2, IntLog(g.n)})

(* n_neighborhoods of the driver: neighborhood.py reads the option itself. *)
NNeighborhoods ==
    IF driver = "neighborhood.py" THEN params_num_neighborhoods
    ELSE NumNeighborhoodsOf(Cycle3)

(* A mistaken create_placeholders: range(num_neighborhoods). *)
CreatePlaceholdersWithoutHopZero(num_neighborhoods) == num_neighborhoods

(* create_placeholders: for i in range(num_neighborhoods+1), one placeholder *)
(* 'neighborhood-i-ph' each; the model keeps how many there are.             *)
CreatePlaceholders(num_neighborhoods) == num_neighborhoods + 1

(* random_walk_neighborhoods(adj, k): the structures of hops 0..k in order.  *)
RandomWalkNeighborhoods(k) == [j \in 1 .. k + 1 |-> j - 1]

(* The options a step reads that params does not hold. *)
Missing(options) == options \ params_keys

(* for j in range(n_neighborhoods+1): feed_dict[neighborhoods_ph[j]] = n[j]  *)
(* (neighborhood.py, train and validation).  n[j] raises IndexError past the *)
(* end of the set.                                                           *)
RangeFeedRaises(set, n) == Len(set) < n + 1

RangeFeed(set, n) == [j \in 0 .. n |-> set[j + 1]]

(* for j, neighborhood in enumerate(neighborhoods) (neighborhood.py, test)   *)
(* and for j in range(len(neighborhood_tensors)) (sparse_neighborhood.py):   *)
(* neighborhoods_ph[j] raises IndexError past the last placeholder.          *)
EnumerateFeedRaises(set, ph) == Len(set) > ph

EnumerateFeed(set) == [j \in 0 .. Len(set) - 1 |-> set[j + 1]]

(* How the driver fills feed_dict in a step of the series. *)
FeedRaises(series) ==
    IF driver = "neighborhood.py" /\ series # "test"
    THEN RangeFeedRaises(neighborhood_set, NNeighborhoods)
    ELSE EnumerateFeedRaises(neighborhood_set, neighborhoods_ph)

Feed(series) ==
    IF driver = "neighborhood.py" /\ series # "test"
    THEN RangeFeed(neighborhood_set, NNeighborhoods)
    ELSE EnumerateFeed(neighborhood_set)

(* sess.run: the encoder reads every neighborhood placeholder and the flow   *)
(* iteration reads the encoder's output, so a placeholder left unfed fails   *)
(* the run before the iteration starts.                                      *)
RunRaises(feed) == DOMAIN feed # 0 .. neighborhoods_ph - 1

----------------------------------------------------------------------------
(* load_graph (core/load.py).  A graph is its nodes in the order they were  *)
(* added and its set of directed edges.                                     *)

NodeSet(g) == {g.nodes[i] : i \in 1 .. Len(g.nodes)}

(* The nodes reachable from the nodes of S along the edges of E. *)
RECURSIVE Descendants(_, _)
Descendants(E, S) ==
    LET T == S \cup {e[2] : e \in {d \in E : d[1] \in S}}
    IN IF T = S THEN S ELSE Descendants(E, T)

(* nx.is_strongly_connected *)
IsStronglyConnected(g) ==
    \A u \in NodeSet(g) : Descendants(g.edges, {u}) = NodeSet(g)

(* nx.strongly_connected_components *)
StronglyConnectedComponents(g) ==
    {{v \in NodeSet(g) : /\ v \in Descendants(g.edges, {u})
                         /\ u \in Descendants(g.edges, {v})} : u \in NodeSet(g)}

(* The subgraph a set of nodes induces: the nodes keep their order. *)
InducedSubgraph(g, S) ==
    [nodes |-> SelectSeq(g.nodes, LAMBDA x : x \in S),
     edges |-> {e \in g.edges : e[1] \in S /\ e[2] \in S}]

(* ox.get_largest_component(graph, strongly=True): the subgraph of a         *)
(* strongly connected component of the greatest size; which one, among       *)
(* several of that size, the order of the components decides.                *)
GetLargestComponent(g) ==
    LET sccs == StronglyConnectedComponents(g)
    IN {InducedSubgraph(g, S) : S \in {C \in sccs : \A D \in sccs :
                                             Cardinality(D) <= Cardinality(C)}}

(* node_mapping = {node: i for i, node in enumerate(graph.nodes())} *)
NodeMapping(g) == [x \in NodeSet(g) |-> (CHOOSE i \in 1 .. Len(g.nodes) : g.nodes[i] = x) - 1]

(* nx.relabel_nodes(graph, node_mapping) *)
RelabelNodes(g, node_mapping) ==
    [nodes |-> [i \in 1 .. Len(g.nodes) |-> node_mapping[g.nodes[i]]],
     edges |-> {<<node_mapping[e[1]], node_mapping[e[2]]>> : e \in g.edges}]

(* A mistaken load_graph: the nodes are relabelled before the reduction. *)
LoadGraphRelabelFirst(g) ==
    LET relabelled == RelabelNodes(g, NodeMapping(g))
    IN IF IsStronglyConnected(relabelled) THEN {relabelled}
       ELSE GetLargestComponent(relabelled)

(* load_graph: the graphs it can return.  project_graph changes the          *)
(* coordinates of the nodes and to_directed copies the directed graph;       *)
(* neither changes the nodes or the edges.                                   *)
LoadGraph(g) ==
    LET reduced == IF IsStronglyConnected(g) THEN {g} ELSE GetLargestComponent(g)
    IN {RelabelNodes(c, NodeMapping(c)) : c \in reduced}

(* The node ids of the stored graphs: OSM ids, not 0..V-1. *)
NodeIds(n) == {2 * i + 1 : i \in 0 .. n - 1}

(* Two orders in which n nodes can have been added: by rising and by       *)
(* falling id.  With every set of edges allowed, every shape of graph meets *)
(* every order of its nodes.                                                *)
Orderings(n) ==
    {[i \in 1 .. n |-> 2 * (i - 1) + 1], [i \in 1 .. n |-> 2 * (n - i) + 1]}

(* The stored graphs of n nodes, with any edges. *)
StoredGraphs(n) ==
    {[nodes |-> q, edges |-> E] :
        q \in Orderings(n),
        E \in SUBSET {e \in NodeIds(n) \X NodeIds(n) : e[1] # e[2]}}

----------------------------------------------------------------------------
(* add_features (utils/graph_utils.py).  A networkx graph object holds its  *)
(* nodes in order, the attributes of every node, the neighbours of every    *)
(* node in order, and the attributes of every edge.  heap maps a graph      *)
(* object to what it holds.                                                 *)

(* list(sorted(S)) *)
RECURSIVE SortedList(_)
SortedList(S) ==
    IF S = {} THEN <<>>
    ELSE LET m == CHOOSE x \in S : \A y \in S : x <= y
         IN <<m>> \o SortedList(S \ {m})

(* The networkx graph of a graph of the model: nodes 0..n-1 in order, every *)
(* node with an attribute x, every edge with an attribute length.           *)
NxGraph(g) ==
    [nodes |-> [i \in 1 .. g.n |-> i - 1],
     node_attr |-> [v \in 0 .. g.n - 1 |-> [name \in {"x"} |-> 0]],
     adj |-> [v \in 0 .. g.n - 1 |-> SortedList({e[2] : e \in {d \in g.edges : d[1] = v}})],
     edge_attr |-> [e \in g.edges |-> [name \in {"length"} |-> 1]]]

(* A mistaken copy: the same graph object. *)
GraphAlias(id) == id

(* graph.copy(): a new graph object. *)
GraphCopy(id) == id + 1

(* A Python value that is None or a dict. *)
None == [is_none |-> TRUE, items |-> <<>>]

Dict(items) == [is_none |-> FALSE, items |-> items]

(* if features is None: features = {} *)
OrEmpty(features) == IF features.is_none THEN <<>> ELSE features.items

(* An attribute dict after **{name: value} is merged into it. *)
WithAttr(attrs, name, value) ==
    [k \in DOMAIN attrs \cup {name} |-> IF k = name THEN value ELSE attrs[k]]

(* adjacency_list(graph): the neighbour lists, by position of the node. *)
AdjacencyList(G) == [i \in 1 .. Len(G.nodes) |-> G.adj[G.nodes[i]]]

(* for node in graph.nodes(): graph.add_node(node, name=float(values[node])) *)
AddNodeFeature(G, name, values) ==
    [G EXCEPT !.node_attr = [v \in DOMAIN G.node_attr |->
                                WithAttr(G.node_attr[v], name, values[v])]]

(* for node, lst in enumerate(adj_lst): for i, neighbor in enumerate(lst):   *)
(*     graph.add_edge(node, neighbor, name=float(values[node, i]))           *)
AddEdgeFeature(G, name, values) ==
    LET adj_list == AdjacencyList(G)
        slot(e) == CHOOSE i \in 1 .. Len(adj_list[e[1] + 1]) : adj_list[e[1] + 1][i] = e[2]
    IN [G EXCEPT !.edge_attr = [e \in DOMAIN G.edge_attr |->
                                   WithAttr(G.edge_attr[e], name,
                                            values[<<e[1], slot(e) - 1>>])]]

(* for name, values in features.items(): one feature after the other. *)
RECURSIVE AddNodeFeatures(_, _)
AddNodeFeatures(G, features) ==
    IF DOMAIN features = {} THEN G
    ELSE LET name == CHOOSE k \in DOMAIN features : TRUE
             rest == [k \in DOMAIN features \ {name} |-> features[k]]
         IN AddNodeFeatures(AddNodeFeature(G, name, features[name]), rest)

RECURSIVE AddEdgeFeatures(_, _)
AddEdgeFeatures(G, features) ==
    IF DOMAIN features = {} THEN G
    ELSE LET name == CHOOSE k \in DOMAIN features : TRUE
             rest == [k \in DOMAIN features \ {name} |-> features[k]]
         IN AddEdgeFeatures(AddEdgeFeature(G, name, features[name]), rest)

(* The degree of the widest row of a padded adjacency list. *)
MaxDegreeOf(g) == MaxOf({Cardinality({e \in g.edges : e[1] = v}) : v \in 0 .. g.n - 1})

(* The node features a caller passes: None, no feature, or one V-vector. *)
NodeFeatures(g) ==
    {None, Dict(<<>>)} \cup
    {Dict([k \in {name} |-> values]) :
        name \in {"demand", "x"}, values \in [0 .. g.n - 1 -> 0 .. MaxFeature]}

(* The edge features a caller passes: None, no feature, or one V x D matrix *)
(* in padded adjacency-list format, 0 in the padding.                       *)
EdgeFeatures(g) ==
    {None, Dict(<<>>)} \cup
    {Dict([k \in {"flow"} |-> values]) :
        values \in {m \in [(0 .. g.n - 1) \X (0 .. MaxDegreeOf(g) - 1) -> 0 .. MaxFeature] :
                       \A s \in DOMAIN m :
                           s[2] >= Cardinality({e \in g.edges : e[1] = s[1]}) => m[s] = 0}}

----------------------------------------------------------------------------
(* adj_matrix_to_list, pad_adj_list and neighborhood_adj_lists               *)
(* (utils/graph_utils.py).  A matrix is the set of its non-zero entries.     *)

(* adj_matrix.transpose(copy=True) *)
Transpose(matrix) == {<<e[2], e[1]>> : e \in matrix}

(* adj_matrix_to_list: adj_dict gets a key for every row that nonzero()      *)
(* reports, and the list has one entry for every key, in rising order.       *)
AdjMatrixToList(matrix, inv) ==
    LET A == IF inv THEN Transpose(matrix) ELSE matrix
        adj_dict == [r \in {e[1] : e \in A} |-> {e[2] : e \in {d \in A : d[1] = r}}]
        keys == SortedList(DOMAIN adj_dict)
    IN [k \in 1 .. Len(keys) |-> SortedList(adj_dict[keys[k]])]

(* np.pad(lst, pad_width=(0, max_degree-len(lst))) raises ValueError on a    *)
(* negative width.                                                           *)
PadRaises(lst, degree) == \E k \in 1 .. Len(lst) : Len(lst[k]) > degree

(* np.pad(lst, (0, max_degree-len(lst)), constant_values=mask_number) *)
Pad(lst, degree, mask) == lst \o [i \in 1 .. degree - Len(lst) |-> mask]

(* np.full(shape=(max_degree, ), fill_value=mask_number) *)
Full(degree, mask) == [i \in 1 .. degree |-> mask]

(* while len(padded) <= max_num_nodes: padded.append(np.full(...)) *)
RECURSIVE AppendWhile(_, _, _, _)
AppendWhile(rows, degree, num_nodes_max, mask) ==
    IF Len(rows) <= num_nodes_max
    THEN AppendWhile(Append(rows, Full(degree, mask)), degree, num_nodes_max, mask)
    ELSE rows

(* pad_adj_list *)
PadAdjList(lst, degree, num_nodes_max, mask) ==
    AppendWhile([k \in 1 .. Len(lst) |-> Pad(lst[k], degree, mask)],
                degree, num_nodes_max, mask)

(* The rows a matrix of size n can have at row v: empty, the diagonal entry, *)
(* the entry of the next node, or every entry.                               *)
RowPatterns(n, v) == {{}, {v}, {(v + 1) % n}, 0 .. n - 1}

(* The matrices of size n, row by row. *)
Matrices(n) ==
    {UNION {{<<v, c>> : c \in rows[v]} : v \in 0 .. n - 1} :
        rows \in {r \in [0 .. n - 1 -> SUBSET (0 .. n - 1)] :
                     \A v \in 0 .. n - 1 : r[v] \in RowPatterns(n, v)}}

----------------------------------------------------------------------------
(* The early stopping of train(). *)

(* The values avg_valid_loss takes: small losses, and losses at and above   *)
(* BIG_NUMBER.                                                              *)
LossValues == (-MaxLoss .. MaxLoss) \cup {BIG_NUMBER, BIG_NUMBER + 1}

(* A mistaken counter: an epoch that is not close leaves the count alone. *)
ConvergenceCountNeverReset(count, prev, loss, threshold) ==
    IF Abs(prev - loss) < threshold THEN count + 1 ELSE count

(* if abs(prev_loss - avg_valid_loss) < early_stop_threshold:               *)
(*     convergence_count += 1 else: convergence_count = 0                   *)
ConvergenceCount(count, prev, loss, threshold) ==
    IF Abs(prev - loss) < threshold THEN count + 1 ELSE 0

(* A mistaken test: a loss equal to the best one is saved as well. *)
ShouldSaveOnTies(loss, prev) == loss <= prev

(* if avg_valid_loss < prev_loss *)
ShouldSave(loss, prev) == loss < prev

----------------------------------------------------------------------------
(* Initial states: a built model with its inputs fed. *)

InitBuilt(archs, graphs, demandOk, dualSet, costFns, corrections, minIters, caps) ==
    /\ arch \in archs
    /\ is_sparse \in (IF arch = "SparseMCFModel" THEN {TRUE} ELSE BOOLEAN)
    /\ \E g \in graphs :
          /\ num_nodes = g.n
          /\ adj = g.edges
          /\ demands \in {d \in DemandVectors(g.n) : demandOk[SumOver(0 .. (g.n - 1), d)]}
          /\ \E w \in RowStochastic(g) :
                flow_weight_pred = (IF is_sparse THEN w ELSE ToDense(w, g.n))
          /\ dual_vars \in dualSet[g.n]
          /\ use_capacities \in caps
          /\ capacities \in (IF use_capacities THEN Capacities(g) ELSE {<<>>})
    /\ flow_iters \in minIters .. MaxFlowIters
    /\ should_correct_flows \in (IF arch = "SparseMCFModel" THEN {FALSE} ELSE corrections)
    /\ cost_fn \in costFns
    /\ flow = StartFlow(arch, flow_weight_pred)
    /\ flow_den = StartDen(arch)
    /\ pre_flow = flow
    /\ pre_den = flow_den
    /\ iters = 0
    /\ NormalisationDone
    /\ pc = "loop"

(* Nothing has been run on the model yet. *)
NothingRun ==
    /\ outputs = <<>>
    /\ avg_loss = <<>>
    /\ test_read = <<>>

(* No training loop is running. *)
NoBatches ==
    /\ params_batch_size = 1
    /\ num_train_points = 0
    /\ num_valid_points = 0
    /\ batch_size = 1
    /\ num_train_batches = 0
    /\ train_step = 0
    /\ valid_step = 0
    /\ batch_len = 0

(* No forward evaluation is followed. *)
NoEvals ==
    /\ decoder_scores = <<>>
    /\ params_keep_den = 1
    /\ evals = <<>>

(* No NeighborhoodMCF is run. *)
NoFeeds ==
    /\ driver = "neighborhood.py"
    /\ entry = "train"
    /\ params_keys = {}
    /\ params_num_neighborhoods = 0
    /\ params_epochs = 0
    /\ neighborhood_set = <<>>
    /\ neighborhoods_ph = 0
    /\ feed_dict = <<>>
    /\ runs = <<>>
    /\ epoch = 0

(* No graph is loaded. *)
NoLoad ==
    /\ stored_graph = <<>>
    /\ loaded_graph = <<>>

(* add_features is not called. *)
NoFeatures ==
    /\ heap = <<>>
    /\ node_features = <<>>
    /\ edge_features = <<>>
    /\ given_graph = <<>>
    /\ returned = 0

(* No adjacency list is made. *)
NoLists ==
    /\ adj_matrix = {}
    /\ matrix_size = 0
    /\ inverted = FALSE
    /\ adj_lst = <<>>
    /\ max_degree = 0
    /\ max_num_nodes = 0
    /\ mask_number = 0
    /\ padded = <<>>

(* No early stopping is followed. *)
NoStopping ==
    /\ params_patience = 0
    /\ params_early_stop_threshold = 0
    /\ valid_losses = <<>>
    /\ convergence_count = 0
    /\ prev_loss = 0
    /\ saved = <<>>

(* The parts of the program outside build and its callers play no part,     *)
(* but for the named one.                                                    *)
LaterIdleExcept(part) ==
    /\ IF part = "feed" \/ part = "stop" THEN TRUE ELSE NoFeeds
    /\ IF part = "load" THEN TRUE ELSE NoLoad
    /\ IF part = "features" THEN TRUE ELSE NoFeatures
    /\ IF part = "lists" THEN TRUE ELSE NoLists
    /\ IF part = "stop" THEN TRUE ELSE NoStopping

LaterIdle == LaterIdleExcept("none")

(* The callers of the model play no part. *)
HarnessIdle ==
    /\ output_ops = <<>>
    /\ NothingRun
    /\ NoBatches
    /\ NoEvals
    /\ LaterIdle

InitWith(archs, graphs, demandOk, dualSet, costFns, corrections, minIters, caps) ==
    /\ InitBuilt(archs, graphs, demandOk, dualSet, costFns, corrections, minIters, caps)
    /\ HarnessIdle

GraphSizes == {g.n : g \in Graphs}

AnySum == [s \in Int |-> TRUE]

ZeroSum == [s \in Int |-> s = 0]

NoDual == [n \in GraphSizes |-> {ZeroVector(n)}]

(* Potentials.  When the demands sum to 0 the dual cost does not change when *)
(* the same number is added to every potential, so they start at 0.          *)
DualVectors == [n \in GraphSizes |-> [0 .. (n - 1) -> 0 .. MaxDual]]

(* The cost functions a * x^2 + b * x with a >= 0: convex, and 0 at 0. *)
CostFns == {[a |-> x, b |-> y] : x \in {0, 1}, y \in (-MaxCostSlope) .. MaxCostSlope}

(* Every model, graph and demand vector, with the quadratic cost. *)
Init ==
    InitWith({"SparseMCFModel", "NeighborhoodModel"}, Graphs, AnySum, NoDual,
             {Quadratic}, BOOLEAN, 0, {FALSE})

(* NeighborhoodModel with flow correction on the graphs that have edges in   *)
(* both directions, for every cost function.                                 *)
InitCost ==
    InitWith({"NeighborhoodModel"}, {Path3, Mixed3}, AnySum, NoDual, CostFns, {TRUE}, 0,
             {FALSE})

(* NeighborhoodModel on balanced demands (the demands of a dataset sum to 0), *)
(* for every assignment of potentials and at least one flow iteration.        *)
InitDual ==
    InitWith({"NeighborhoodModel"}, {Cycle3, Path3, Mixed3}, ZeroSum, DualVectors,
             {Quadratic}, BOOLEAN, 1, {FALSE})

(* NeighborhoodModel with use_capacities set, for every assignment of         *)
(* capacities to the edges.                                                   *)
InitCap ==
    InitWith({"NeighborhoodModel"}, {Cycle3, Mixed3}, ZeroSum, NoDual, {Quadratic},
             BOOLEAN, 1, {TRUE})

(* A built NeighborhoodModel of either build with its registered outputs, on *)
(* balanced demands, for every assignment of potentials and one flow         *)
(* iteration.                                                                 *)
InitRun ==
    /\ InitBuilt({"NeighborhoodModel"}, {Cycle3, Mixed3}, ZeroSum, DualVectors,
                 {Quadratic}, {FALSE}, 1, {FALSE})
    /\ flow_iters = 1
    /\ output_ops \in {ModelsOutputOps, LegacyOutputOps}
    /\ NothingRun
    /\ NoBatches
    /\ NoEvals
    /\ LaterIdle

(* The model's values play no part in the batching of train(). *)
ModelIdle ==
    /\ arch = "NeighborhoodModel"
    /\ num_nodes = 0
    /\ adj = {}
    /\ demands = <<>>
    /\ dual_vars = <<>>
    /\ flow_weight_pred = <<>>
    /\ flow_iters = 0
    /\ should_correct_flows = FALSE
    /\ cost_fn = Quadratic
    /\ flow = <<>>
    /\ flow_den = 1
    /\ pre_flow = <<>>
    /\ pre_den = 1
    /\ iters = 0
    /\ NormalisationDone
    /\ use_capacities = FALSE
    /\ capacities = <<>>
    /\ output_ops = <<>>
    /\ NothingRun

(* train() before its first epoch, for every mode, configured batch size and  *)
(* size of the training and of the validation series.                         *)
InitBatch ==
    /\ ModelIdle
    /\ is_sparse \in BOOLEAN
    /\ params_batch_size \in 1 .. MaxBatchSize
    /\ num_train_points \in 0 .. MaxPoints
    /\ num_valid_points \in 0 .. MaxPoints
    /\ batch_size = 0
    /\ num_train_batches = 0
    /\ train_step = 0
    /\ valid_step = 0
    /\ batch_len = 0
    /\ NoEvals
    /\ LaterIdle
    /\ pc = "train"

(* A built and initialised NeighborhoodModel (models/neighborhood_model.py)   *)
(* with one graph instance to feed: the learned parameters give every node a  *)
(* score, node 1 is the source and has two outgoing edges, to nodes 0 and 2.  *)
InitEval ==
    /\ arch = "NeighborhoodModel"
    /\ is_sparse \in BOOLEAN
    /\ num_nodes = Mixed3.n
    /\ adj = Mixed3.edges
    /\ demands \in {[v \in 0 .. 2 |-> IF v = 1 THEN -1 ELSE IF v = sink THEN 1 ELSE 0] :
                        sink \in {0, 2}}
    /\ decoder_scores \in {sc \in ScoreVectors(Mixed3.n) : sc[1] = 0}
    /\ params_keep_den \in 1 .. 2
    /\ evals = <<>>
    /\ node_weights = <<>>
    /\ use_sparsemax = FALSE
    /\ pairing = "column"
    /\ norm_weights = <<>>
    /\ norm_den = <<>>
    /\ dual_vars = ZeroVector(Mixed3.n)
    /\ flow_weight_pred = <<>>
    /\ flow_iters = 1
    /\ should_correct_flows = FALSE
    /\ cost_fn = Quadratic
    /\ flow = <<>>
    /\ flow_den = 1
    /\ pre_flow = <<>>
    /\ pre_den = 1
    /\ iters = 0
    /\ use_capacities = FALSE
    /\ capacities = <<>>
    /\ output_ops = ModelsOutputOps
    /\ NothingRun
    /\ NoBatches
    /\ LaterIdle
    /\ pc = "built"

(* A built NeighborhoodModel whose decoder has scored the nodes; neither of   *)
(* the two builds has flow proportions yet.                                   *)
InitNorm ==
    /\ arch = "NeighborhoodModel"
    /\ is_sparse \in BOOLEAN
    /\ \E g \in NormGraphs :
          /\ num_nodes = g.n
          /\ adj = g.edges
          /\ node_weights \in ScoreVectors(g.n)
          /\ demands = ZeroVector(g.n)
          /\ dual_vars = ZeroVector(g.n)
    /\ pairing \in {"column", "product"}
    /\ use_sparsemax \in (IF pairing = "column" THEN BOOLEAN ELSE {FALSE})
    /\ norm_weights = <<>>
    /\ norm_den = <<>>
    /\ flow_weight_pred = <<>>
    /\ flow_iters = 0
    /\ should_correct_flows = FALSE
    /\ cost_fn = Quadratic
    /\ flow = <<>>
    /\ flow_den = 1
    /\ pre_flow = <<>>
    /\ pre_den = 1
    /\ iters = 0
    /\ use_capacities = FALSE
    /\ capacities = <<>>
    /\ HarnessIdle
    /\ pc = "normalize"

----------------------------------------------------------------------------
(* Actions. *)

(* The decoded scores are masked to the allowed edges and normalised. *)
Normalize ==
    /\ pc = "normalize"
    /\ norm_weights' = NormalisedNum
    /\ norm_den' = NormalisedDen
    /\ pc' = "normalized"
    /\ UNCHANGED <<arch, is_sparse, num_nodes, adj, demands, flow_weight_pred,
                   flow_iters, should_correct_flows, cost_fn, dual_vars, flow,
                   flow_den, pre_flow, pre_den, iters, node_weights,
                   use_sparsemax, pairing, capVars, harnessVars>>

(* The test tf.while_loop makes before every round: cond holds and fewer    *)
(* than maximum_iterations = flow_iters rounds have run.                     *)
LoopContinues == Cond(flow) /\ iters < flow_iters

(* One round of tf.while_loop. *)
LoopBody ==
    /\ pc = "loop"
    /\ LoopContinues
    /\ flow' = (IF is_sparse THEN Body(flow, flow_den) ELSE DenseBody(flow, flow_den))
    /\ flow_den' = flow_den * WeightDen
    /\ iters' = iters + 1
    /\ UNCHANGED <<arch, is_sparse, num_nodes, adj, demands, flow_weight_pred,
                   flow_iters, should_correct_flows, cost_fn, dual_vars,
                   pre_flow, pre_den, normVars, capVars, harnessVars, pc>>

(* The loop ends: the solver returns its flow. *)
LoopExit ==
    /\ pc = "loop"
    /\ ~LoopContinues
    /\ pre_flow' = flow
    /\ pre_den' = flow_den
    /\ pc' = (IF arch = "SparseMCFModel" THEN "done" ELSE "correct")
    /\ UNCHANGED <<arch, is_sparse, num_nodes, adj, demands, flow_weight_pred,
                   flow_iters, should_correct_flows, cost_fn, dual_vars,
                   flow, flow_den, iters, normVars, capVars,
                   harnessVars>>

(* if should_correct_flows: remove the flow that runs both ways on a pair.   *)
CorrectFlows ==
    /\ pc = "correct"
    /\ flow' = (IF should_correct_flows THEN CorrectedFlow(flow) ELSE flow)
    /\ flow_den' = (IF should_correct_flows THEN CorrectedDen(flow_den) ELSE flow_den)
    /\ pc' = (IF use_capacities THEN "capacity" ELSE "done")
    /\ UNCHANGED <<arch, is_sparse, num_nodes, adj, demands, flow_weight_pred,
                   flow_iters, should_correct_flows, cost_fn, dual_vars,
                   pre_flow, pre_den, iters, normVars, capVars,
                   harnessVars>>

(* if self.params['use_capacities']: the flow that enters the cost.  Sparse   *)
(* mode replaces the flow by its clipped form; dense mode hands flow and      *)
(* capacities to the cost and leaves the flow as it is.                       *)
ApplyCapacities ==
    /\ pc = "capacity"
    /\ flow' = (IF is_sparse THEN SparseCapacityFlow(flow, flow_den) ELSE flow)
    /\ flow_den' = (IF is_sparse THEN flow_den * WeightDen ELSE flow_den)
    /\ pc' = "done"
    /\ UNCHANGED <<arch, is_sparse, num_nodes, adj, demands, flow_weight_pred,
                   flow_iters, should_correct_flows, cost_fn, dual_vars,
                   pre_flow, pre_den, iters, normVars, capVars,
                   harnessVars>>

Next == LoopBody \/ LoopExit \/ CorrectFlows

(* One validation batch of train(): outputs = model.inference(feed_dict);     *)
(* avg_loss = outputs[0].                                                     *)
ValidationBatch ==
    /\ pc = "done"
    /\ outputs' = Inference
    /\ avg_loss' = Item(outputs', 0)
    /\ pc' = "validated"
    /\ UNCHANGED <<arch, is_sparse, num_nodes, adj, demands, flow_weight_pred,
                   flow_iters, should_correct_flows, cost_fn, dual_vars,
                   flow, flow_den, pre_flow, pre_den, iters, normVars, capVars,
                   output_ops, test_read, batchVars, evalVars, laterVars>>

(* One test batch of test(): outputs = model.inference(feed_dict);            *)
(* flow_cost = outputs[1]; flows = outputs[2]; flow_proportions = outputs[3]. *)
TestBatch ==
    /\ pc = "done"
    /\ outputs' = Inference
    /\ test_read' = [flow_cost |-> Item(outputs', 1),
                     flows |-> Item(outputs', 2),
                     flow_proportions |-> Item(outputs', 3)]
    /\ pc' = "tested"
    /\ UNCHANGED <<arch, is_sparse, num_nodes, adj, demands, flow_weight_pred,
                   flow_iters, should_correct_flows, cost_fn, dual_vars,
                   flow, flow_den, pre_flow, pre_den, iters, normVars, capVars,
                   output_ops, avg_loss, batchVars, evalVars, laterVars>>

modelVars == <<arch, is_sparse, num_nodes, adj, demands, flow_weight_pred,
               flow_iters, should_correct_flows, cost_fn, dual_vars, flow,
               flow_den, pre_flow, pre_den, iters, normVars, capVars, runVars,
               laterVars>>

(* batch_size = 1 if self.params['sparse'] else self.params['batch_size'] *)
SetBatchSize ==
    /\ pc = "train"
    /\ batch_size' = BatchSize
    /\ pc' = "epoch"
    /\ UNCHANGED <<modelVars, evalVars, params_batch_size, num_train_points, num_valid_points,
                   num_train_batches, train_step, valid_step, batch_len>>

(* The head of an epoch: num_train_batches is computed. *)
StartEpoch ==
    /\ pc = "epoch"
    /\ num_train_batches' = CeilDiv(num_train_points, batch_size)
    /\ train_step' = 0
    /\ pc' = "train_batches"
    /\ UNCHANGED <<modelVars, evalVars, params_batch_size, num_train_points, num_valid_points,
                   batch_size, valid_step, batch_len>>

(* One round of for i in range(num_train_batches): a batch is drawn and run. *)
TrainBatch ==
    /\ pc = "train_batches"
    /\ train_step < num_train_batches
    /\ batch_len' = TrainBatchLen(batch_size)
    /\ train_step' = train_step + 1
    /\ UNCHANGED <<modelVars, evalVars, params_batch_size, num_train_points, num_valid_points,
                   batch_size, num_train_batches, valid_step, pc>>

(* The training batches are done: the validation batches are made. *)
StartValidation ==
    /\ pc = "train_batches"
    /\ train_step = num_train_batches
    /\ valid_step' = 0
    /\ pc' = "valid_batches"
    /\ UNCHANGED <<modelVars, evalVars, params_batch_size, num_train_points, num_valid_points,
                   batch_size, num_train_batches, train_step, batch_len>>

(* One round of the loop over the validation batches. *)
ValidStep ==
    /\ pc = "valid_batches"
    /\ valid_step < NumValidBatches(num_valid_points, batch_size)
    /\ batch_len' = ValidBatchLen(num_valid_points, batch_size, valid_step)
    /\ valid_step' = valid_step + 1
    /\ UNCHANGED <<modelVars, evalVars, params_batch_size, num_train_points, num_valid_points,
                   batch_size, num_train_batches, train_step, pc>>

(* The validation batches are done. *)
EndEpoch ==
    /\ pc = "valid_batches"
    /\ valid_step = NumValidBatches(num_valid_points, batch_size)
    /\ pc' = "epoch_end"
    /\ UNCHANGED <<modelVars, evalVars, batchVars>>

(* One epoch of train(), batch by batch. *)
NextBatch ==
    SetBatchSize \/ StartEpoch \/ TrainBatch \/ StartValidation \/ ValidStep \/ EndEpoch

(* One forward evaluation of the graph instance, in a training step or in a  *)
(* validation or test batch: the encoder runs with the fed keep probability, *)
(* the decoder scores the nodes, the scores are normalised and the solver    *)
(* computes the flow.                                                        *)
ForwardPass ==
    /\ pc = "built"
    /\ Len(evals) < MaxEvals
    /\ UNCHANGED <<arch, is_sparse, num_nodes, adj, demands, flow_weight_pred,
                   flow_iters, should_correct_flows, cost_fn, dual_vars, flow,
                   flow_den, pre_flow, pre_den, iters, use_sparsemax, pairing,
                   capVars, runVars, batchVars, laterVars, decoder_scores,
                   params_keep_den, pc>>
    /\ \E series \in {"train", "valid"} :
          \E mask \in DropoutMasks(FedKeepDen(series)) :
              /\ node_weights' = DecodedScores(mask)
              /\ norm_weights' = NormalisedNum'
              /\ norm_den' = NormalisedDen'
              /\ evals' = Append(evals,
                                [series |-> series,
                                 keep_den |-> FedKeepDen(series),
                                 flow_weight_pred |-> [num |-> norm_weights',
                                                       den |-> norm_den'],
                                 flow |-> FirstRoundFlow'])

(* NeighborhoodMCF before train() or test() is called: the model of the     *)
(* flow computation plays no part.                                           *)
FeedStart ==
    /\ ModelIdle
    /\ is_sparse \in BOOLEAN
    /\ NoBatches
    /\ NoEvals
    /\ LaterIdleExcept("feed")
    /\ driver \in {"neighborhood.py", "sparse_neighborhood.py"}
    /\ entry \in {"train", "test"}
    /\ params_num_neighborhoods \in 0 .. MaxHops
    /\ params_epochs \in 1 .. MaxEpochs
    /\ neighborhoods_ph = 0
    /\ feed_dict = <<>>
    /\ runs = <<>>
    /\ epoch = 0
    /\ pc = "start"

(* Every option is configured (sparse_neighborhood.py has a default for      *)
(* num_neighborhoods) and the set that comes with a graph instance of        *)
(* neighborhood.py was built for the configured hop count.                   *)
InitFeed ==
    /\ FeedStart
    /\ params_keys \in {RequiredOptions} \cup
                       (IF driver = "sparse_neighborhood.py"
                        THEN {RequiredOptions \ {"num_neighborhoods"}} ELSE {})
    /\ neighborhood_set = (IF driver = "neighborhood.py"
                           THEN RandomWalkNeighborhoods(params_num_neighborhoods)
                           ELSE <<>>)

(* At most one option is missing, and the set that comes with a graph        *)
(* instance of neighborhood.py has any number of structures.                 *)
InitSupplied ==
    /\ FeedStart
    /\ params_keys \in {RequiredOptions} \cup {RequiredOptions \ {o} : o \in RequiredOptions}
    /\ neighborhood_set \in (IF driver = "neighborhood.py"
                             THEN {RandomWalkNeighborhoods(len - 1) : len \in 0 .. MaxHops + 2}
                             ELSE {<<>>})

(* The options a driver reads before its first batch. *)
SetupOptions ==
    (IF driver = "neighborhood.py" THEN {"num_neighborhoods"} ELSE {})
        \cup {"sparse", "flow_iters"}
        \cup (IF entry = "train" THEN {"epochs"} ELSE {})

(* The options a run of the entry reads from its first line to its last. *)
OptionsRead ==
    SetupOptions \cup
        (IF entry = "train"
         THEN {"dropout_keep_prob", "early_stop_threshold", "patience"}
         ELSE {"plot_flows"})

(* train() and test() up to their first batch: n_neighborhoods is read, the  *)
(* placeholders are created, the model is built, and sparse_neighborhood.py  *)
(* builds the neighborhoods of its graph.                                    *)
Setup ==
    /\ pc = "start"
    /\ IF Missing(SetupOptions) # {}
       THEN /\ pc' = "failed"
            /\ UNCHANGED <<neighborhood_set, neighborhoods_ph>>
       ELSE /\ neighborhoods_ph' = CreatePlaceholders(NNeighborhoods)
            /\ neighborhood_set' = (IF driver = "sparse_neighborhood.py"
                                    THEN RandomWalkNeighborhoods(NNeighborhoods)
                                    ELSE neighborhood_set)
            /\ pc' = (IF entry = "train" THEN "train_batch" ELSE "test_batch")
    /\ UNCHANGED <<builtVars, loadVars, featVars, listVars, stopVars>>
    /\ UNCHANGED <<driver, entry, params_keys, params_num_neighborhoods,
                   params_epochs, feed_dict, runs, epoch>>

(* feed_dict is filled and the model is run on it; then the step goes on. *)
FeedAndRun(series, next) ==
    IF FeedRaises(series)
    THEN /\ pc' = "failed"
         /\ UNCHANGED <<feed_dict, runs>>
    ELSE /\ feed_dict' = Feed(series)
         /\ IF RunRaises(Feed(series))
            THEN /\ pc' = "failed"
                 /\ UNCHANGED runs
            ELSE /\ runs' = Append(runs, [series |-> series, feed |-> Feed(series)])
                 /\ pc' = next

(* One training batch: the feed reads params['dropout_keep_prob']. *)
FeedTrainBatch ==
    /\ pc = "train_batch"
    /\ IF Missing({"sparse", "dropout_keep_prob"}) # {}
       THEN /\ pc' = "failed"
            /\ UNCHANGED <<feed_dict, runs>>
       ELSE FeedAndRun("train", "valid_batch")
    /\ UNCHANGED <<builtVars, loadVars, featVars, listVars, stopVars>>
    /\ UNCHANGED <<driver, entry, params_keys, params_num_neighborhoods,
                   params_epochs, neighborhood_set, neighborhoods_ph, epoch>>

(* One validation batch. *)
FeedValidBatch ==
    /\ pc = "valid_batch"
    /\ FeedAndRun("valid", "early_stop")
    /\ UNCHANGED <<builtVars, loadVars, featVars, listVars, stopVars>>
    /\ UNCHANGED <<driver, entry, params_keys, params_num_neighborhoods,
                   params_epochs, neighborhood_set, neighborhoods_ph, epoch>>

(* The end of an epoch: params['early_stop_threshold'] and params['patience'] *)
(* are read; the loop breaks or goes on to the next epoch.                    *)
EarlyStopping ==
    /\ pc = "early_stop"
    /\ IF Missing({"early_stop_threshold", "patience"}) # {}
       THEN /\ pc' = "failed"
            /\ UNCHANGED epoch
       ELSE /\ epoch' = epoch + 1
            /\ \E converged \in BOOLEAN :
                  pc' = (IF converged \/ epoch + 1 >= params_epochs
                         THEN "finished" ELSE "train_batch")
    /\ UNCHANGED <<builtVars, loadVars, featVars, listVars, stopVars>>
    /\ UNCHANGED <<driver, entry, params_keys, params_num_neighborhoods,
                   params_epochs, neighborhood_set, neighborhoods_ph, feed_dict, runs>>

(* One test batch: after the run, params['plot_flows'] is read. *)
FeedTestBatch ==
    /\ pc = "test_batch"
    /\ FeedAndRun("test", IF Missing({"plot_flows"}) # {} THEN "failed" ELSE "finished")
    /\ UNCHANGED <<builtVars, loadVars, featVars, listVars, stopVars>>
    /\ UNCHANGED <<driver, entry, params_keys, params_num_neighborhoods,
                   params_epochs, neighborhood_set, neighborhoods_ph, epoch>>

NextFeed == Setup \/ FeedTrainBatch \/ FeedValidBatch \/ EarlyStopping \/ FeedTestBatch

(* A stored graph before load_graph is called. *)
InitLoad ==
    /\ ModelIdle
    /\ is_sparse = FALSE
    /\ NoBatches
    /\ NoEvals
    /\ LaterIdleExcept("load")
    /\ \E n \in 1 .. MaxStoredNodes : stored_graph \in StoredGraphs(n)
    /\ loaded_graph = <<>>
    /\ pc = "load"

(* graph = load_graph(graph_name) *)
LoadGraphCall ==
    /\ pc = "load"
    /\ loaded_graph' \in LoadGraph(stored_graph)
    /\ pc' = "loaded"
    /\ UNCHANGED <<builtVars, feedVars, featVars, listVars, stopVars, stored_graph>>

(* A caller's graph and the features it is about to pass to add_features. *)
InitFeatures ==
    /\ ModelIdle
    /\ is_sparse = FALSE
    /\ NoBatches
    /\ NoEvals
    /\ LaterIdleExcept("features")
    /\ \E g \in {Cycle3, Mixed3} :
          /\ heap = <<NxGraph(g)>>
          /\ given_graph = NxGraph(g)
          /\ node_features \in NodeFeatures(g)
          /\ edge_features \in EdgeFeatures(g)
    /\ returned = 0
    /\ pc = "call"

(* add_features(graph, node_features, edge_features), graph being object 1. *)
AddFeatures ==
    /\ pc = "call"
    /\ LET graph == GraphCopy(1)
           with_nodes == AddNodeFeatures(heap[1], OrEmpty(node_features))
           with_edges == AddEdgeFeatures(with_nodes, OrEmpty(edge_features))
       IN /\ heap' = [id \in DOMAIN heap \cup {graph} |->
                         IF id = graph THEN with_edges ELSE heap[id]]
          /\ returned' = graph
    /\ pc' = "returned"
    /\ UNCHANGED <<builtVars, feedVars, loadVars, listVars, stopVars,
                   node_features, edge_features, given_graph>>

(* One neighborhood matrix with its degree, before neighborhood_adj_lists    *)
(* turns it into a padded list; mask_number is the number of nodes.          *)
InitLists ==
    /\ ModelIdle
    /\ is_sparse = FALSE
    /\ NoBatches
    /\ NoEvals
    /\ LaterIdleExcept("lists")
    /\ matrix_size \in 1 .. MaxMatrixSize
    /\ adj_matrix \in Matrices(matrix_size)
    /\ inverted \in BOOLEAN
    /\ max_degree \in 0 .. matrix_size
    /\ max_num_nodes \in matrix_size .. matrix_size + 1
    /\ mask_number = max_num_nodes
    /\ adj_lst = <<>>
    /\ padded = <<>>
    /\ pc = "matrix"

(* adj_lst = adj_matrix_to_list(neighborhood) *)
AdjMatrixToListCall ==
    /\ pc = "matrix"
    /\ adj_lst' = AdjMatrixToList(adj_matrix, inverted)
    /\ pc' = "listed"
    /\ UNCHANGED <<builtVars, feedVars, loadVars, featVars, stopVars, adj_matrix,
                   matrix_size, inverted, max_degree, max_num_nodes, mask_number, padded>>

(* adj_lst = pad_adj_list(adj_lst, max_degree, max_num_nodes, mask_number) *)
PadAdjListCall ==
    /\ pc = "listed"
    /\ IF PadRaises(adj_lst, max_degree)
       THEN /\ pc' = "failed"
            /\ UNCHANGED padded
       ELSE /\ padded' = PadAdjList(adj_lst, max_degree, max_num_nodes, mask_number)
            /\ pc' = "padded"
    /\ UNCHANGED <<builtVars, feedVars, loadVars, featVars, stopVars, adj_matrix,
                   matrix_size, inverted, adj_lst, max_degree, max_num_nodes, mask_number>>

(* neighborhood_adj_lists, for one neighborhood. *)
NextLists == AdjMatrixToListCall \/ PadAdjListCall

(* train() before its first epoch: convergence_count = 0, prev_loss =       *)
(* BIG_NUMBER.  The epochs, patience and threshold are configured.           *)
InitStop ==
    /\ ModelIdle
    /\ is_sparse = FALSE
    /\ NoBatches
    /\ NoEvals
    /\ LaterIdleExcept("stop")
    /\ driver \in {"neighborhood.py", "sparse_neighborhood.py"}
    /\ entry = "train"
    /\ params_keys = RequiredOptions
    /\ params_num_neighborhoods = 0
    /\ neighborhood_set = <<>>
    /\ neighborhoods_ph = 0
    /\ feed_dict = <<>>
    /\ runs = <<>>
    /\ params_epochs \in 1 .. MaxEpochs + 2
    /\ params_patience \in 0 .. 2
    /\ params_early_stop_threshold \in 1 .. 2
    /\ epoch = 0
    /\ valid_losses = <<>>
    /\ convergence_count = 0
    /\ prev_loss = BIG_NUMBER
    /\ saved = <<>>
    /\ pc = "epoch"

(* One epoch of train() with its validation loss: the early stopping         *)
(* counters, the save of a better model, and the break.                      *)
Epoch ==
    /\ pc = "epoch"
    /\ epoch < params_epochs
    /\ \E avg_valid_loss \in LossValues :
          /\ valid_losses' = Append(valid_losses, avg_valid_loss)
          /\ convergence_count' = ConvergenceCount(convergence_count, prev_loss,
                                                   avg_valid_loss,
                                                   params_early_stop_threshold)
          /\ saved' = (IF ShouldSave(avg_valid_loss, prev_loss)
                       THEN Append(saved, epoch) ELSE saved)
          /\ prev_loss' = (IF ShouldSave(avg_valid_loss, prev_loss)
                           THEN avg_valid_loss ELSE prev_loss)
    /\ epoch' = epoch + 1
    /\ pc' = (IF convergence_count' >= params_patience THEN "stopped"
              ELSE IF epoch + 1 < params_epochs THEN "epoch" ELSE "finished")
    /\ UNCHANGED <<builtVars, loadVars, featVars, listVars, driver, entry, params_keys,
                   params_num_neighborhoods, params_epochs, neighborhood_set,
                   neighborhoods_ph, feed_dict, runs, params_patience,
                   params_early_stop_threshold>>

(* The flow computation followed by a validation or a test batch. *)
NextRun == Next \/ ValidationBatch \/ TestBatch

(* The steps of build when capacities are in use. *)
NextCap == Next \/ ApplyCapacities

Spec == Init /\ [][Next]_vars

SpecCost == InitCost /\ [][Next]_vars

SpecDual == InitDual /\ [][Next]_vars

SpecNorm == InitNorm /\ [][Normalize]_vars

SpecCap == InitCap /\ [][NextCap]_vars

SpecRun == InitRun /\ [][NextRun]_vars

SpecBatch == InitBatch /\ [][NextBatch]_vars

SpecEval == InitEval /\ [][ForwardPass]_vars

SpecFeed == InitFeed /\ [][NextFeed]_vars

SpecSupplied == InitSupplied /\ [][NextFeed]_vars

SpecLoad == InitLoad /\ [][LoadGraphCall]_vars

SpecFeatures == InitFeatures /\ [][AddFeatures]_vars

SpecLists == InitLists /\ [][NextLists]_vars

SpecStop == InitStop /\ [][Epoch]_vars

----------------------------------------------------------------------------
(* Properties of the primal flow iteration. *)

(* C1: after any number of iterations (0 .. flow_iters) of the primal flow   *)
(* iteration, from non-negative flow weights and for every demand vector,    *)
(* every entry of the flow is >= 0.                                          *)
C1_FlowNonNegative ==
    /\ pc = "loop" => \A i \in DOMAIN flow : flow[i] >= 0
    /\ \A i \in DOMAIN pre_flow : pre_flow[i] >= 0

C1_Witness ==
    /\ pc = "loop"
    /\ iters >= 2
    /\ \E v \in Nodes : demands[v] < 0
    /\ \E v \in Nodes : demands[v] > 0
    /\ \E i \in DOMAIN flow : flow[i] > 0
    /\ \E v \in Nodes : Inflow(pre_flow, v) - demands[v] * pre_den < 0

(* C2: the loop body runs exactly flow_iters times for every input.  The    *)
(* loop goes on exactly while fewer than flow_iters rounds have run,         *)
(* whatever the flow and the demands are, so it is left after flow_iters     *)
(* rounds, never before and never later.                                     *)
C2_ExactlyFlowIters ==
    /\ pc = "loop" => (LoopContinues <=> iters < flow_iters)
    /\ pc # "loop" => iters = flow_iters
    /\ iters <= flow_iters

(* The loop has run all of its rounds on a flow that an iteration no longer  *)
(* changes.                                                                  *)
C2_Witness ==
    /\ pc = "done"
    /\ iters = flow_iters
    /\ flow_iters >= 3
    /\ \E i \in DOMAIN pre_flow : pre_flow[i] > 0
    /\ \A i \in DOMAIN pre_flow : Body(pre_flow, pre_den)[i] = pre_flow[i] * WeightDen

(* The sum of column v of the flow f: the flow on the edges entering v. *)
ColumnSum(f, v) ==
    SumOver({u \in Nodes : <<u, v>> \in DOMAIN f}, [u \in Nodes |-> At(f, <<u, v>>)])

(* C3: one iteration maps the flow to the flow whose entry (v, u) is          *)
(* weight[v, u] * max(0, inflow[v] - demand[v]) on every allowed edge, where  *)
(* inflow[v] is the sum of the current flow over the edges entering v, and    *)
(* the weights are the same in every iteration.                               *)
C3_OneIteration ==
    [][/\ flow_weight_pred' = flow_weight_pred
       /\ iters' = iters + 1 =>
            /\ flow_den' = flow_den * WeightDen
            /\ \A e \in adj :
                  LET excess == ColumnSum(flow, e[1]) - demands[e[1]] * flow_den
                  IN flow'[e] = flow_weight_pred[e] * (IF excess > 0 THEN excess ELSE 0)]_vars

(* An iteration has run on a flow whose row sums and column sums differ, and *)
(* has cut a negative excess to 0.                                           *)
C3_Witness ==
    /\ pc = "loop"
    /\ iters >= 2
    /\ \E i \in adj : flow[i] > 0
    /\ \E i \in adj : flow[i] = 0 /\ flow_weight_pred[i] > 0
    /\ \E v \in Nodes : ColumnSum(flow, v) # SumOver(OutEdges(adj, v), flow)

(* C4: the flow that enters the first iteration carries no flow: the inflow  *)
(* of iteration 0 comes from the demands alone.                              *)
C4_SeededByDemandsOnly ==
    (pc = "loop" /\ iters = 0) => \A i \in DOMAIN flow : flow[i] = 0

ScenarioA ==
    /\ adj = Cycle4.edges
    /\ num_nodes = Cycle4.n
    /\ demands = [v \in 0 .. 3 |-> IF v = 0 THEN 1 ELSE IF v = 3 THEN -1 ELSE 0]
    /\ flow_iters = 5
    /\ \A e \in adj : flow_weight_pred[e] = WeightDen

(* The flow on edge e is within a quarter of 1. *)
NearOne(e) == 4 * Abs(flow[e] - flow_den) <= flow_den

(* C5 as stated: in scenario A the flow after the 5 iterations is near 1 on  *)
(* each of the four edges.                                                   *)
C5_ScenarioA_UnitFlow ==
    (ScenarioA /\ pc = "done") => \A e \in Cycle4.edges : NearOne(e)

(* C5 as amended: in scenario A, SparseMCFModel's flow after the 5           *)
(* iterations is 0 on (0,1), 1 on (1,2) and (2,3), and 2 on (3,0).           *)
C5_ScenarioA_Actual ==
    (ScenarioA /\ pc = "done" /\ arch = "SparseMCFModel") =>
        /\ iters = 5
        /\ flow[<<0, 1>>] = 0
        /\ flow[<<1, 2>>] = flow_den
        /\ flow[<<2, 3>>] = flow_den
        /\ flow[<<3, 0>>] = 2 * flow_den

C5_Witness == ScenarioA /\ pc = "done" /\ arch = "SparseMCFModel" /\ iters = 5

----------------------------------------------------------------------------
(* Properties of the costs and of the cycle correction. *)

(* loss = flow_cost - dual_cost >= 0, with flow_cost a numerator over        *)
(* flow_den^2 and dual_cost a numerator over (2a)^2.                         *)
LossNonNegative ==
    FlowCost(cost_fn, flow, flow_den) * (2 * cost_fn.a) * (2 * cost_fn.a)
        >= DualCost(cost_fn, dual_vars) * flow_den * flow_den

(* The flow leaving v. *)
Outflow(f, v) == SumOver({i \in DOMAIN f : i[1] = v}, f)

(* Conservation: at every node the flow entering minus the flow leaving is   *)
(* the node's demand.                                                        *)
Conserves(f, den) ==
    \A v \in Nodes : Inflow(f, v) - Outflow(f, v) = demands[v] * den

(* C8 as stated: for every graph, demand vector, flow weights and            *)
(* potentials, dual_cost <= flow_cost of the flow the model returns.         *)
C8_WeakDuality == pc = "done" => LossNonNegative

(* C8 as amended: dual_cost <= flow_cost whenever the returned flow          *)
(* satisfies conservation.                                                   *)
C8_WeakDualityOfFeasibleFlow ==
    (pc = "done" /\ Conserves(flow, flow_den)) => LossNonNegative

C8_Witness ==
    /\ pc = "done"
    /\ Conserves(flow, flow_den)
    /\ \E v \in Nodes : demands[v] # 0
    /\ \E i \in DOMAIN flow : flow[i] > 0
    /\ DualCost(cost_fn, dual_vars) > 0

(* The transposed index. *)
Rev(e) == <<e[2], e[1]>>

(* C9: with should_correct_flows set, after the correction every pair of     *)
(* nodes with both edges present has min(flow[u,v], flow[v,u]) = 0, and the  *)
(* dense and the sparse correction of the flow the solver returned give the  *)
(* same value on every edge (the one the model's flow has).                  *)
C9_ReciprocalFlowRemoved ==
    (pc = "done" /\ arch = "NeighborhoodModel" /\ should_correct_flows) =>
        LET sparse_corrected == SparseCorrect([e \in adj |-> pre_flow[e]])
            dense_corrected == DenseCorrect(ToDense(pre_flow, num_nodes))
        IN /\ \A e \in adj : Rev(e) \in adj => Min(flow[e], flow[Rev(e)]) = 0
           /\ \A e \in adj : sparse_corrected[e] = 2 * dense_corrected[e]
           /\ \A e \in adj : flow[e] * pre_den * 2 = sparse_corrected[e] * flow_den

(* Flow ran both ways on a pair of nodes, in different amounts, and one way  *)
(* on another edge.                                                          *)
C9_Witness ==
    /\ pc = "done"
    /\ arch = "NeighborhoodModel"
    /\ should_correct_flows
    /\ \E e \in adj :
          /\ Rev(e) \in adj
          /\ pre_flow[e] > 0
          /\ pre_flow[Rev(e)] > pre_flow[e]
    /\ \E e \in adj : Rev(e) \notin adj /\ pre_flow[e] > 0

(* The flow the solver returned, as numerators over the denominator of the   *)
(* corrected flow.                                                           *)
PreFlowRescaled == [i \in DOMAIN pre_flow |-> pre_flow[i] * (flow_den \div pre_den)]

CostNotIncreased ==
    FlowCost(cost_fn, flow, flow_den) <= FlowCost(cost_fn, PreFlowRescaled, flow_den)

(* C10 as stated: for every convex cost function with cost(0) = 0 the total  *)
(* flow cost after the correction is <= the total flow cost before it.       *)
C10_CorrectionNeverCostsMore ==
    (pc = "done" /\ should_correct_flows) => CostNotIncreased

(* C10 as amended: the same, for every convex cost function with cost(0) = 0 *)
(* that does not decrease on the non-negative numbers (b >= 0).              *)
C10_CorrectionNeverCostsMoreIfMonotone ==
    (pc = "done" /\ should_correct_flows /\ cost_fn.b >= 0) => CostNotIncreased

C10_Witness ==
    /\ pc = "done"
    /\ should_correct_flows
    /\ cost_fn.b >= 0
    /\ FlowCost(cost_fn, flow, flow_den) < FlowCost(cost_fn, PreFlowRescaled, flow_den)

----------------------------------------------------------------------------
(* Properties of the normalisation. *)

(* C6: for every node v with at least one allowed outgoing edge, row v of    *)
(* the normalised weights is non-negative and sums to 1, in dense and in     *)
(* sparse mode, with softmax and with sparsemax.                             *)
C6_RowStochastic ==
    pc = "normalized" =>
        \A v \in Nodes :
            OutEdges(adj, v) # {} =>
                /\ \A i \in Row(norm_weights, v) : norm_weights[i] >= 0
                /\ norm_den[v] > 0
                /\ SumOver(Row(norm_weights, v), norm_weights) = norm_den[v]

(* A dense softmax row with two allowed edges of different weight and a      *)
(* masked entry.                                                             *)
C6_Witness ==
    /\ pc = "normalized"
    /\ ~is_sparse
    /\ ~use_sparsemax
    /\ \E i \in adj, j \in adj :
          /\ i[1] = j[1]
          /\ norm_weights[i] > norm_weights[j]
          /\ norm_weights[j] > 0
          /\ \E k \in Row(norm_weights, i[1]) : k \notin adj

(* C7: for every node with no allowed outgoing edge the normalised row is    *)
(* all zeros, in dense mode as well as in sparse mode.                       *)
C7_EmptyRowIsZero ==
    pc = "normalized" =>
        \A v \in Nodes :
            OutEdges(adj, v) = {} =>
                \A i \in Row(norm_weights, v) : norm_weights[i] = 0

----------------------------------------------------------------------------
(* Properties of the capacity step. *)

(* C11: with use_capacities set, the flow that enters the cost (and is        *)
(* returned) satisfies 0 <= flow[u,v] <= capacity[u,v] on every edge, in      *)
(* dense and in sparse mode.                                                  *)
C11_FlowWithinCapacity ==
    (pc = "done" /\ use_capacities) =>
        \A e \in adj :
            /\ At(flow, e) >= 0
            /\ At(flow, e) * WeightDen <= capacities[e] * flow_den

----------------------------------------------------------------------------
(* Properties of the dual cost. *)

(* The dual cost as the specification states it, a numerator over            *)
(* (2 * a) * (2 * a): the sum over the edges (u, v) of                        *)
(* cost(dual_flow) - (p[u] - p[v]) * dual_flow, with                          *)
(* dual_flow = max(0, inverse_derivative(p[u] - p[v])), minus the sum over    *)
(* the nodes of p[v] * demand[v].                                             *)
StatedDualCost ==
    LET dden == 2 * cost_fn.a
        d(e) == dual_vars[e[1]] - dual_vars[e[2]]
        df(e) == IF d(e) - cost_fn.b > 0 THEN d(e) - cost_fn.b ELSE 0
        term == [e \in adj |->
                    cost_fn.a * df(e) * df(e) + cost_fn.b * df(e) * dden
                    - d(e) * df(e) * dden]
        pd == [v \in Nodes |-> dual_vars[v] * demands[v]]
    IN SumOver(adj, term) - SumOver(Nodes, pd) * dden * dden

(* C12: dual_cost is the sum over the existing edges of                       *)
(* cost(dual_flow) - dual_diff * dual_flow minus the sum over the nodes of    *)
(* potential * demand; non-edges contribute nothing, and the dense and the    *)
(* sparse code path compute the same value.                                   *)
C12_DualCostFormula ==
    pc = "done" =>
        /\ DualCost(cost_fn, dual_vars) = StatedDualCost
        /\ DualCostFrom(cost_fn, dual_vars, SparseDualDiff(dual_vars)) = StatedDualCost
        /\ DualCostFrom(cost_fn, dual_vars, DenseDualDiff(dual_vars)) = StatedDualCost
        /\ DualCostFrom(cost_fn, dual_vars, LegacyDualDiff(dual_vars)) = StatedDualCost

(* A dual cost with flow on an edge, a pair that is no edge whose potentials  *)
(* differ, and a demand that counts.                                          *)
C12_Witness ==
    /\ pc = "done"
    /\ \E e \in adj : dual_vars[e[1]] > dual_vars[e[2]]
    /\ \E i \in AllPairs \ adj : dual_vars[i[1]] > dual_vars[i[2]]
    /\ \E v \in Nodes : dual_vars[v] * demands[v] # 0
    /\ StatedDualCost # 0

(* The part of C13 that both builds satisfy: dual_diff is                     *)
(* potential[u] - potential[v] on every edge in every construction, and       *)
(* dual_flow is non-negative and zero (or absent) off the edges.              *)
DualDiffOnEdgesAndFlow ==
    LET sd == SparseDualDiff(dual_vars)
        dd == DenseDualDiff(dual_vars)
        ld == LegacyDualDiff(dual_vars)
        sf == DualFlows(cost_fn, sd)
        df == DualFlows(cost_fn, dd)
        lf == DualFlows(cost_fn, ld)
    IN /\ \A e \in adj : /\ sd[e] = dual_vars[e[1]] - dual_vars[e[2]]
                          /\ dd[e] = sd[e]
                          /\ ld[e] = sd[e]
       /\ \A i \in DOMAIN sd : sf[i] >= 0
       /\ \A i \in AllPairs :
             /\ df[i] >= 0
             /\ lf[i] >= 0
             /\ i \notin adj => df[i] = 0 /\ lf[i] = 0
       /\ DualFlows(cost_fn, DualDiff(dual_vars)) =
             DualFlows(cost_fn, IF is_sparse THEN sd ELSE dd)

(* dual_diff of models/neighborhood_model.py is absent (sparse) or zero       *)
(* (dense) on every pair that is no edge.                                     *)
MaskedDualDiff ==
    /\ DOMAIN SparseDualDiff(dual_vars) = adj
    /\ DOMAIN DenseDualDiff(dual_vars) = AllPairs
    /\ \A i \in AllPairs \ adj : DenseDualDiff(dual_vars)[i] = 0

(* C13 as stated: dual_diff[u,v] = potential[u] - potential[v] on every edge  *)
(* and is absent or zero on every non-edge, in every build; the sparse and    *)
(* the dense construction agree on every edge; dual_flow is non-negative and  *)
(* zero on every non-edge.                                                    *)
C13_DualDiffMaskedInEveryBuild ==
    pc = "done" =>
        /\ DualDiffOnEdgesAndFlow
        /\ MaskedDualDiff
        /\ \A i \in AllPairs \ adj : LegacyDualDiff(dual_vars)[i] = 0

(* C13 as amended: the same, with the mask on dual_diff only in               *)
(* models/neighborhood_model.py; neighborhood_model.py keeps                  *)
(* potential[u] - potential[v] on every pair and masks dual_flow alone.       *)
C13_DualDiffAndFlow ==
    pc = "done" =>
        /\ DualDiffOnEdgesAndFlow
        /\ MaskedDualDiff
        /\ \A i \in AllPairs :
              LegacyDualDiff(dual_vars)[i] = dual_vars[i[1]] - dual_vars[i[2]]

(* Potentials that fall along one edge, rise along another, and differ on a   *)
(* pair that is no edge.                                                      *)
C13_Witness ==
    /\ pc = "done"
    /\ \E e \in adj : dual_vars[e[1]] < dual_vars[e[2]]
    /\ \E e \in adj : DualFlows(cost_fn, DualDiff(dual_vars))[e] > 0
    /\ \E i \in AllPairs \ adj : dual_vars[i[1]] # dual_vars[i[2]]

----------------------------------------------------------------------------
(* Properties of the two representations. *)

C15_FlowOnAdjacencyPattern ==
    pc = "done" =>
        IF is_sparse
        THEN DOMAIN flow \subseteq adj
        ELSE \A i \in AllPairs \ adj : flow[i] = 0

----------------------------------------------------------------------------
(* Properties of the edge scores. *)

(* C16: the score the normalisation is given for an allowed edge (u, v) is a  *)
(* symmetric function of the two nodes' scores: when (u, v) and (v, u) are    *)
(* both allowed, their scores are equal, for every assignment of node scores. *)
C16_SymmetricPairing ==
    pc = "normalized" =>
        \A e \in adj :
            Rev(e) \in adj => PredWeights[e] = PredWeights[Rev(e)]

----------------------------------------------------------------------------
(* Properties of the callers of model.inference. *)

(* C17: the loss the validation loop takes from model.inference (and then     *)
(* averages, compares with the best loss and uses for early stopping) is the  *)
(* model's loss, the mean of flow_cost - dual_cost: the first element of      *)
(* what inference returns is that loss.                                       *)
C17_ValidationLossIsModelLoss ==
    pc = "validated" =>
        avg_loss.val.num * LossOp.den = LossOp.num * avg_loss.val.den

(* C18: test() takes the registered flow_cost, flow and flow_weight_pred for  *)
(* its flow_cost, flows and proportions: positions 1, 2 and 3 of what         *)
(* inference returns are these tensors.                                       *)
C18_TestReadsFlowAndProportions ==
    pc = "tested" =>
        /\ test_read.flow_cost.op = "flow_cost"
        /\ test_read.flows.op = "flow"
        /\ test_read.flow_proportions.op = "flow_weight_pred"

----------------------------------------------------------------------------
(* Properties of the batches. *)

(* C19: in sparse mode every training and validation step runs exactly one    *)
(* graph instance, whatever batch size is configured; in dense mode the       *)
(* configured batch size is used; the number of training batches of an epoch  *)
(* is num_train_points / batch_size rounded up.                               *)
C19_BatchSizes ==
    /\ pc # "train" =>
          /\ is_sparse => batch_size = 1
          /\ ~is_sparse => batch_size = params_batch_size
    /\ (is_sparse /\ train_step + valid_step > 0) => batch_len = 1
    /\ pc \in {"train_batches", "valid_batches", "epoch_end"} =>
          /\ num_train_batches * batch_size >= num_train_points
          /\ num_train_batches * batch_size < num_train_points + batch_size

(* A sparse epoch with a configured batch size above 1 has run several        *)
(* training and validation batches.                                           *)
C19_Witness ==
    /\ pc = "epoch_end"
    /\ is_sparse
    /\ params_batch_size > 1
    /\ train_step > 1
    /\ valid_step > 1
    /\ batch_len = 1

----------------------------------------------------------------------------
(* Properties of repeated forward evaluations. *)

(* Two evaluations return the same flow weights and the same flow. *)
SameResult(a, b) ==
    /\ a.flow_weight_pred = b.flow_weight_pred
    /\ a.flow = b.flow

----------------------------------------------------------------------------
(* Properties of the neighborhood feeds. *)

(* C21: when the set supplied with a graph instance does not have           *)
(* num_neighborhoods + 1 entries, or a required option is missing, the run  *)
(* fails before any forward evaluation is executed, and no evaluation runs  *)
(* with a placeholder unfed or fed from another hop.                        *)
C21_FailsBeforeAnyIteration ==
    LET wrongSet == /\ driver = "neighborhood.py"
                    /\ "num_neighborhoods" \in params_keys
                    /\ Len(neighborhood_set) # params_num_neighborhoods + 1
    IN /\ (wrongSet \/ Missing(OptionsRead) # {}) =>
             /\ runs = <<>>
             /\ pc # "finished"
       /\ \A r \in 1 .. Len(runs) :
             runs[r].feed = [j \in 0 .. neighborhoods_ph - 1 |-> j]

(* C22: the set built for hop count k holds the structures of hops 0..k in  *)
(* order, hop 0 first; k + 1 placeholders are created; and every training,  *)
(* validation and test step runs with placeholder j fed the structure of    *)
(* hop j, for every j in 0..k.                                              *)
C22_PlaceholderFedItsHop ==
    LET k == NNeighborhoods
    IN /\ pc # "failed"
       /\ pc # "start" =>
             /\ Len(neighborhood_set) = k + 1
             /\ \A j \in 0 .. k : neighborhood_set[j + 1] = j
             /\ neighborhoods_ph = k + 1
       /\ \A r \in 1 .. Len(runs) : runs[r].feed = [j \in 0 .. k |-> j]
       /\ pc \in {"valid_batch", "early_stop"} => Len(runs) > 0
       /\ pc = "finished" => Len(runs) >= (IF entry = "train" THEN 2 ELSE 1)

C22_Witness ==
    /\ pc = "finished"
    /\ driver = "sparse_neighborhood.py"
    /\ entry = "train"
    /\ NNeighborhoods >= 2
    /\ {runs[r].series : r \in 1 .. Len(runs)} = {"train", "valid"}
    /\ DOMAIN feed_dict = 0 .. NNeighborhoods

----------------------------------------------------------------------------
(* Properties of load_graph. *)

(* The place of node x among the nodes of S, in the order of the stored graph. *)
RankIn(S, x) ==
    Cardinality({y \in S : \E i, j \in 1 .. Len(stored_graph.nodes) :
                              /\ stored_graph.nodes[i] = y
                              /\ stored_graph.nodes[j] = x
                              /\ i < j})

(* S is a largest set of nodes of the stored graph that reach one another. *)
LargestMutuallyReachable(S) ==
    LET E == stored_graph.edges
        mutual(T) == \A u, v \in T : v \in Descendants(E, {u})
    IN /\ S # {}
       /\ mutual(S)
       /\ \A T \in SUBSET NodeSet(stored_graph) :
             mutual(T) => Cardinality(T) <= Cardinality(S)

(* C23: the graph load_graph returns is strongly connected, its nodes are   *)
(* exactly 0..V-1, and it is the largest strongly connected component of    *)
(* the stored graph (the whole graph when that is strongly connected) with  *)
(* its nodes renumbered in their order.                                     *)
C23_LoadedGraphDenseAndConnected ==
    pc = "loaded" =>
        LET g == loaded_graph
            V == Len(g.nodes)
        IN /\ NodeSet(g) = 0 .. V - 1
           /\ \A i \in 1 .. V : g.nodes[i] = i - 1
           /\ g.edges \subseteq (0 .. V - 1) \X (0 .. V - 1)
           /\ IsStronglyConnected(g)
           /\ \E S \in SUBSET NodeSet(stored_graph) :
                 /\ LargestMutuallyReachable(S)
                 /\ Cardinality(S) = V
                 /\ g.edges = {<<RankIn(S, e[1]), RankIn(S, e[2])>> :
                                  e \in {d \in stored_graph.edges :
                                             d[1] \in S /\ d[2] \in S}}

C23_Witness ==
    /\ pc = "loaded"
    /\ ~IsStronglyConnected(stored_graph)
    /\ Len(loaded_graph.nodes) = 2
    /\ Len(stored_graph.nodes) = 3
    /\ loaded_graph.edges = {<<0, 1>>, <<1, 0>>}
    /\ \E e \in stored_graph.edges : e[1] = stored_graph.nodes[1]
    /\ \A e \in stored_graph.edges : e[2] # stored_graph.nodes[1]

----------------------------------------------------------------------------
(* Properties of add_features. *)

(* The attributes the returned graph must hold where the given graph held   *)
(* attrs and the features give the value value_of[name] for each name.      *)
Carries(attrs, features, value_of(_)) ==
    [k \in DOMAIN attrs \cup DOMAIN OrEmpty(features) |->
        IF k \in DOMAIN OrEmpty(features) THEN value_of(k) ELSE attrs[k]]

(* C24: add_features leaves the graph it is given as it was and returns     *)
(* another graph object with the same nodes and edges that carries the      *)
(* added node and edge attributes; None for either kind of feature adds     *)
(* nothing of that kind.                                                    *)
C24_GivenGraphUnchanged ==
    pc = "returned" =>
        LET R == heap[returned]
            slot(e) == Cardinality({w \in 0 .. e[2] - 1 : <<e[1], w>> \in DOMAIN given_graph.edge_attr})
        IN /\ heap[1] = given_graph
           /\ returned # 1
           /\ R.nodes = given_graph.nodes
           /\ R.adj = given_graph.adj
           /\ DOMAIN R.edge_attr = DOMAIN given_graph.edge_attr
           /\ \A v \in DOMAIN given_graph.node_attr :
                 R.node_attr[v] =
                     Carries(given_graph.node_attr[v], node_features,
                             LAMBDA k : node_features.items[k][v])
           /\ \A e \in DOMAIN given_graph.edge_attr :
                 R.edge_attr[e] =
                     Carries(given_graph.edge_attr[e], edge_features,
                             LAMBDA k : edge_features.items[k][<<e[1], slot(e)>>])
           /\ node_features = None => R.node_attr = given_graph.node_attr
           /\ edge_features = None => R.edge_attr = given_graph.edge_attr

C24_Witness ==
    /\ pc = "returned"
    /\ edge_features = None
    /\ ~node_features.is_none
    /\ DOMAIN node_features.items = {"x"}
    /\ \E v \in DOMAIN given_graph.node_attr :
          /\ heap[returned].node_attr[v]["x"] = 1
          /\ heap[1].node_attr[v]["x"] = 0

----------------------------------------------------------------------------
(* Properties of the padded adjacency lists. *)

(* C25: pad_adj_list returns max_num_nodes rows of max_degree columns: the  *)
(* rows of the list right-padded with mask_number, then rows of mask_number *)
(* only.                                                                    *)
C25_PaddedShape ==
    pc = "padded" =>
        /\ Len(padded) = max_num_nodes
        /\ \A k \in 1 .. Len(padded) :
              /\ Len(padded[k]) = max_degree
              /\ \A i \in 1 .. max_degree :
                    padded[k][i] = (IF k <= Len(adj_lst) /\ i <= Len(adj_lst[k])
                                    THEN adj_lst[k][i] ELSE mask_number)

(* C26: entry i of the list adj_matrix_to_list returns is the rising list   *)
(* of the columns with a non-zero entry in row i (in column i when          *)
(* inverted), for every node i, rows without an entry included.             *)
C26_EntryIsNode ==
    pc # "matrix" =>
        /\ Len(adj_lst) = matrix_size
        /\ \A i \in 0 .. matrix_size - 1 :
              i + 1 \in DOMAIN adj_lst =>
                  adj_lst[i + 1] =
                      SortedList({c \in 0 .. matrix_size - 1 :
                                     IF inverted THEN <<c, i>> \in adj_matrix
                                     ELSE <<i, c>> \in adj_matrix})

----------------------------------------------------------------------------
(* Properties of the early stopping. *)

(* The least of a non-empty set of numbers. *)
MinOf(S) == CHOOSE m \in S : \A x \in S : m <= x

(* The best validation loss known before epoch k (the k-th of the run). *)
BestBefore(k) == MinOf({BIG_NUMBER} \cup {valid_losses[j] : j \in 1 .. k - 1})

(* Epoch k's loss is within the threshold of the best loss before it. *)
Close(k) == Abs(BestBefore(k) - valid_losses[k]) < params_early_stop_threshold

(* The number of consecutive close epochs that end with epoch k. *)
Streak(k) == MaxOf({c \in 0 .. k : \A j \in k - c + 1 .. k : Close(j)})

(* C27: after every epoch convergence_count is the number of consecutive    *)
(* epochs up to this one whose validation loss is within                    *)
(* early_stop_threshold of the best loss before them; train() stops at the  *)
(* first epoch where that number reaches patience, and otherwise after      *)
(* params['epochs'] epochs.                                                 *)
C27_ConvergenceCountAndStop ==
    LET n == Len(valid_losses)
    IN /\ epoch = n
       /\ n <= params_epochs
       /\ convergence_count = Streak(n)
       /\ \A k \in 1 .. n - 1 : Streak(k) < params_patience
       /\ pc = "stopped" <=> (n > 0 /\ Streak(n) >= params_patience)
       /\ pc = "finished" <=> (n = params_epochs /\ Streak(n) < params_patience)
       /\ pc = "epoch" <=> (n < params_epochs /\ (n > 0 => Streak(n) < params_patience))

C27_Witness ==
    /\ pc = "stopped"
    /\ params_patience = 2
    /\ Len(valid_losses) = 4
    /\ convergence_count = 2
    /\ ~Close(2)
    /\ valid_losses[1] < valid_losses[2]

(* C28: after every epoch prev_loss is the least of BIG_NUMBER and the      *)
(* validation losses so far, so it never increases; the model is saved in   *)
(* exactly the epochs whose loss is below BIG_NUMBER and below every        *)
(* earlier loss, so the last save belongs to the first epoch that attains   *)
(* the least loss.                                                          *)
C28_BestLossAndSaves ==
    LET n == Len(valid_losses)
        best == MinOf({BIG_NUMBER} \cup {valid_losses[j] : j \in 1 .. n})
        improves(k) == /\ valid_losses[k] < BIG_NUMBER
                       /\ \A j \in 1 .. k - 1 : valid_losses[k] < valid_losses[j]
    IN /\ prev_loss = best
       /\ \A k \in 1 .. n : prev_loss <= BestBefore(k)
       /\ {saved[i] : i \in 1 .. Len(saved)} = {k - 1 : k \in {j \in 1 .. n : improves(j)}}
       /\ \A i, j \in 1 .. Len(saved) : i < j => saved[i] < saved[j]
       /\ saved # <<>> =>
             LET last == saved[Len(saved)] + 1
             IN /\ valid_losses[last] = best
                /\ \A j \in 1 .. last - 1 : valid_losses[j] > best

C28_Witness ==
    /\ Len(valid_losses) = 4
    /\ Len(saved) = 2
    /\ saved[2] = 1
    /\ valid_losses[3] = valid_losses[2]
    /\ valid_losses[4] > valid_losses[2]
    /\ valid_losses[1] < BIG_NUMBER

----------------------------------------------------------------------------
(* Properties of the cycle correction and of the fixed points of the        *)
(* primal iteration.                                                        *)

(* The flow into v minus the flow out of v. *)
NetFlow(f, v) == Inflow(f, v) - Outflow(f, v)

(* C29: the correction leaves the net flow of every node as the solver      *)
(* returned it and keeps the flow non-negative, in the dense and in the     *)
(* sparse path (whose result is a numerator over twice the denominator).    *)
C29_CorrectionKeepsNetFlow ==
    (pc = "done" /\ arch = "NeighborhoodModel" /\ should_correct_flows) =>
        LET sparse_corrected == SparseCorrect([e \in adj |-> pre_flow[e]])
            dense_corrected == DenseCorrect(ToDense(pre_flow, num_nodes))
        IN /\ \A i \in DOMAIN pre_flow : pre_flow[i] >= 0
           /\ \A v \in Nodes :
                 /\ NetFlow(sparse_corrected, v) = 2 * NetFlow(pre_flow, v)
                 /\ NetFlow(dense_corrected, v) = NetFlow(pre_flow, v)
                 /\ NetFlow(flow, v) * pre_den = NetFlow(pre_flow, v) * flow_den
           /\ \A i \in DOMAIN sparse_corrected : sparse_corrected[i] >= 0
           /\ \A i \in DOMAIN dense_corrected : dense_corrected[i] >= 0
           /\ \A i \in DOMAIN flow : flow[i] >= 0

C29_Witness ==
    /\ pc = "done"
    /\ arch = "NeighborhoodModel"
    /\ should_correct_flows
    /\ is_sparse
    /\ \E e \in adj :
          /\ Rev(e) \in adj
          /\ pre_flow[e] > pre_flow[Rev(e)]
          /\ pre_flow[Rev(e)] > 0
          /\ flow[e] > 0
          /\ flow[Rev(e)] = 0
    /\ \E v \in Nodes : NetFlow(pre_flow, v) # 0

(* The iteration leaves the flow f (a numerator over den) as it is. *)
FixedPoint(f, den) ==
    LET next == IF is_sparse THEN Body(f, den) ELSE DenseBody(f, den)
    IN \A i \in DOMAIN f : next[i] = f[i] * WeightDen

(* C30: the weights being row-stochastic, after an iteration the flow that  *)
(* leaves a node v with an out-edge is max(0, inflow[v] - demand[v]) for    *)
(* the inflow under the flow before; so when the iteration leaves the flow  *)
(* unchanged, inflow[v] - outflow[v] = demand[v] at such a node whose       *)
(* inflow is at least its demand, and outflow[v] = 0 where it is below.     *)
C30_OutflowIsExcess ==
    [][iters' = iters + 1 =>
          \A v \in Nodes :
              OutEdges(adj, v) # {} =>
                  LET excess == Inflow(flow, v) - demands[v] * flow_den
                  IN /\ Outflow(flow', v) = WeightDen * (IF excess > 0 THEN excess ELSE 0)
                     /\ (\A i \in DOMAIN flow : flow'[i] = flow[i] * WeightDen) =>
                            IF excess >= 0
                            THEN Inflow(flow, v) - Outflow(flow, v) = demands[v] * flow_den
                            ELSE Outflow(flow, v) = 0]_vars

(* Iterations have run and have reached a flow that the next iteration      *)
(* leaves unchanged: it is not zero, and a node with an out-edge receives   *)
(* less than its demand.                                                    *)
C30_Witness ==
    /\ pc = "loop"
    /\ iters >= 3
    /\ iters < flow_iters
    /\ arch = "SparseMCFModel"
    /\ FixedPoint(flow, flow_den)
    /\ \E i \in DOMAIN flow : flow[i] > 0
    /\ \E v \in Nodes : /\ OutEdges(adj, v) # {}
                         /\ Inflow(flow, v) < demands[v] * flow_den
    /\ \E v \in Nodes : /\ OutEdges(adj, v) # {}
                         /\ Inflow(flow, v) > demands[v] * flow_den
                         /\ demands[v] # 0

=============================================================================
